---- MODULE Spec2Model ----
(***************************************************************************)
(* Offline-Reminder-App: the period module, the repository, the state      *)
(* engine and the scheduler (src/app/periods.py, repository.py, engine.py, *)
(* scheduler.py, ui/panel.py, main.py).                                    *)
(*                                                                         *)
(* Instants are whole seconds.  A UTC instant is the number of seconds     *)
(* since 00:00 UTC of a Monday; a local datetime is the same count on the  *)
(* local wall clock (UTC instant plus the system's UTC offset).  A date is *)
(* its day number, so day 0 is a Monday and isoformat() of a date is the   *)
(* day number (one text per date).                                         *)
(***************************************************************************)
EXTENDS Integers, Sequences, FiniteSets, TLC

VARIABLES
    clock,          \* the wall clock, what now_utc() returns
    utcoffset,      \* the system's UTC offset, what local_tz() resolves to
    tasks,          \* table tasks: id -> row
    sessions,       \* table sessions: rows in id order
    completions,    \* table completions: rows in id order
    snoozes,        \* table snoozes: task_id -> row (only ids that have a row)
    settings,       \* table settings: the two keys the core reads
    last_fired_utc, \* Scheduler.last_fired_utc: task_id -> instant
    emitted,        \* reminder events emitted by the latest tick, in order
    evaluated,      \* per task, what the latest tick computed (history)
    aborted,        \* the latest tick ended by an exception (history)
    last_event,     \* per task, the instant of its latest reminder event in this run
    touched,        \* tasks whose snooze or skip the user changed since their latest reminder
    call            \* the latest compute_task_state call made on its own (history)

vars == <<clock, utcoffset, tasks, sessions, completions, snoozes, settings,
          last_fired_utc, emitted, evaluated, aborted, last_event, touched, call>>

repo == <<tasks, sessions, completions, snoozes, settings>>

----------------------------------------------------------------------------
(* Values *)

NULL == -1      \* SQL NULL / Python None
BadIso == -2    \* a stored text datetime.fromisoformat() does not accept
NotInt == -3    \* a stored text int() does not accept

SecondsPerMinute == 60
SecondsPerDay == 24 * 60 * SecondsPerMinute
WorkweekDays == 5

WEEKLY_TIME_QUOTA == "weekly_time_quota"
COMPLETE_ONCE == "complete_once"

\* time(hh, mm): a time of day, as seconds after midnight
time(hh, mm) == (hh * 60 + mm) * SecondsPerMinute

\* timedelta(minutes=m), in seconds
timedelta_minutes(m) == m * SecondsPerMinute

Max(a, b) == IF a >= b THEN a ELSE b
Min(a, b) == IF a <= b THEN a ELSE b

----------------------------------------------------------------------------
(* periods.py *)

to_local(dt_utc) == dt_utc + utcoffset

to_utc(dt_local) == dt_local - utcoffset

date(dt_local) == dt_local \div SecondsPerDay

weekday(dt_local) == date(dt_local) % 7

workweek_window_for(dt_local) ==
    LET monday == date(dt_local) - weekday(dt_local)
        start == monday * SecondsPerDay
    IN  [start_local |-> start, end_local |-> start + WorkweekDays * SecondsPerDay]

\* A variant that keys by the instant's own date.
period_key_workweek_by_day(dt_local) == <<"workweek", date(dt_local)>>

period_key_workweek(dt_local) ==
    <<"workweek", date(workweek_window_for(dt_local).start_local)>>

\* A variant whose week runs up to the next Monday 00:00.
is_in_workweek_whole_week(dt_local) ==
    LET w == workweek_window_for(dt_local)
    IN  w.start_local <= dt_local /\ dt_local < w.start_local + 7 * SecondsPerDay

\* A variant whose window includes its end.
is_in_workweek_closed(dt_local) ==
    LET w == workweek_window_for(dt_local)
    IN  w.start_local <= dt_local /\ dt_local <= w.end_local

is_in_workweek(dt_local) ==
    LET w == workweek_window_for(dt_local)
    IN  w.start_local <= dt_local /\ dt_local < w.end_local

\* A variant that combines the date with midnight, not with the reminder time.
next_reminder_datetime_local_midnight(dt_local, reminder_time) ==
    date(dt_local) * SecondsPerDay

next_reminder_datetime_local(dt_local, reminder_time) ==
    date(dt_local) * SecondsPerDay + reminder_time

\* A variant that counts the whole interval, not its part inside the window.
split_interval_by_workweek_unclamped(start_utc, end_utc) ==
    IF end_utc <= start_utc THEN 0 ELSE (end_utc - start_utc) \div SecondsPerMinute

\* A variant that rounds the seconds to the nearest minute.
split_interval_by_workweek_rounded(start_utc, end_utc) ==
    LET start_local == to_local(start_utc)
        end_local == to_local(end_utc)
        w == workweek_window_for(start_local)
        a == Max(start_local, w.start_local)
        b == Min(end_local, w.end_local)
    IN  IF b <= a THEN 0 ELSE ((b - a) + 30) \div SecondsPerMinute

\* A variant that takes the window of the interval's end.
split_interval_by_workweek_end_window(start_utc, end_utc) ==
    LET start_local == to_local(start_utc)
        end_local == to_local(end_utc)
        w == workweek_window_for(end_local)
        a == Max(start_local, w.start_local)
        b == Min(end_local, w.end_local)
    IN  IF b <= a THEN 0 ELSE (b - a) \div SecondsPerMinute

split_interval_by_workweek(start_utc, end_utc) ==
    LET start_local == to_local(start_utc)
        end_local == to_local(end_utc)
        w == workweek_window_for(start_local)
        a == Max(start_local, w.start_local)
        b == Min(end_local, w.end_local)
    IN  IF b <= a THEN 0 ELSE (b - a) \div SecondsPerMinute

----------------------------------------------------------------------------
(* repository.py: the query surface *)

\* A stored time text is modelled by the parts s.split(":") gives, as a record:
\* fields hh and mm for a text of two parts, hh alone for a text without a
\* colon, hh, mm and ss for a text of three parts; a part int() does not accept
\* is NotInt.
\* A variant that falls back to midnight.
_parse_hhmm_midnight(s, default) ==
    IF DOMAIN s # {"hh", "mm"} THEN time(0, 0)
    ELSE IF s.hh = NotInt \/ s.mm = NotInt THEN time(0, 0)
    ELSE IF s.hh \in 0..23 /\ s.mm \in 0..59 THEN time(s.hh, s.mm)
    ELSE time(0, 0)

\* try: hh, mm = s.split(":"); return time(int(hh), int(mm))
\* except Exception: return default
_parse_hhmm(s, default) ==
    IF DOMAIN s # {"hh", "mm"} THEN default
    ELSE IF s.hh = NotInt \/ s.mm = NotInt THEN default
    ELSE IF s.hh \in 0..23 /\ s.mm \in 0..59 THEN time(s.hh, s.mm)
    ELSE default

get_settings ==
    [repeat_interval_minutes |-> settings.repeat_interval_minutes,
     reminders_start_time |-> _parse_hhmm(settings.reminder_start_hhmm, time(9, 0))]

\* SELECT * FROM tasks ORDER BY id ASC
RECURSIVE SortedIds(_)
SortedIds(S) ==
    IF S = {} THEN <<>>
    ELSE LET m == CHOOSE x \in S : \A y \in S : x <= y
         IN  <<m>> \o SortedIds(S \ {m})

list_tasks == SortedIds(DOMAIN tasks)

\* get_task: raise KeyError(task_id) when the SELECT finds no row
get_task_raises(task_id) == task_id \notin DOMAIN tasks

get_task(task_id) == tasks[task_id]

\* A variant for which a task without a row has no readable state.
get_snooze_state_strict(sn, task_id) ==
    IF task_id \in DOMAIN sn
    THEN sn[task_id]
    ELSE [snoozed_until_utc |-> BadIso, skipped_date_local |-> NULL]

\* SELECT * FROM snoozes WHERE task_id=?; no row gives the empty state
get_snooze_state(sn, task_id) ==
    IF task_id \in DOMAIN sn
    THEN sn[task_id]
    ELSE [snoozed_until_utc |-> NULL, skipped_date_local |-> NULL]

\* A variant that writes the row anew (INSERT OR REPLACE): the skip date is lost.
set_snoozed_until_utc_replace(sn, task_id, iso_utc) ==
    (task_id :> [snoozed_until_utc |-> iso_utc, skipped_date_local |-> NULL]) @@ sn

\* INSERT ... ON CONFLICT(task_id) DO UPDATE SET snoozed_until_utc = excluded...
set_snoozed_until_utc(sn, task_id, iso_utc) ==
    IF task_id \in DOMAIN sn
    THEN [sn EXCEPT ![task_id].snoozed_until_utc = iso_utc]
    ELSE (task_id :> [snoozed_until_utc |-> iso_utc, skipped_date_local |-> NULL]) @@ sn

set_skipped_today_local(sn, task_id, yyyy_mm_dd) ==
    IF task_id \in DOMAIN sn
    THEN [sn EXCEPT ![task_id].skipped_date_local = yyyy_mm_dd]
    ELSE (task_id :> [snoozed_until_utc |-> NULL, skipped_date_local |-> yyyy_mm_dd]) @@ sn

clear_snooze_and_skip(sn, task_id) ==
    (task_id :> [snoozed_until_utc |-> NULL, skipped_date_local |-> NULL]) @@ sn

is_timed_open(r) == r.end_utc = NULL /\ r.manual_minutes = 0

\* A variant that looks for a session that has ended (end_utc IS NOT NULL).
is_session_running_ended(task_id) ==
    \E i \in DOMAIN sessions :
        /\ sessions[i].task_id = task_id
        /\ sessions[i].end_utc # NULL /\ sessions[i].manual_minutes = 0

is_session_running(task_id) ==
    \E i \in DOMAIN sessions : sessions[i].task_id = task_id /\ is_timed_open(sessions[i])

\* A variant that counts a row whatever the period of its start is.
session_minutes_any_period(r, pk_now, end_now) ==
    IF r.manual_minutes > 0
    THEN r.manual_minutes
    ELSE split_interval_by_workweek(
             r.start_utc, IF r.end_utc = NULL THEN end_now ELSE r.end_utc)

\* One row's share of the sum.  pk_now is the clock read that gives the current
\* period key, end_now the clock read that ends a session still open.
session_minutes(r, pk_now, end_now) ==
    LET pk == period_key_workweek(to_local(pk_now))
        same == period_key_workweek(to_local(r.start_utc)) = pk
    IN  IF r.manual_minutes > 0
        THEN (IF same THEN r.manual_minutes ELSE 0)
        ELSE IF ~same THEN 0
        ELSE split_interval_by_workweek(
                 r.start_utc, IF r.end_utc = NULL THEN end_now ELSE r.end_utc)

RECURSIVE SumMinutes(_, _, _, _)
SumMinutes(rows, task_id, pk_now, end_now) ==
    IF rows = <<>> THEN 0
    ELSE (IF Head(rows).task_id = task_id
          THEN session_minutes(Head(rows), pk_now, end_now) ELSE 0)
         + SumMinutes(Tail(rows), task_id, pk_now, end_now)

weekly_minutes_for_current_workweek(task_id, pk_now, end_now) ==
    SumMinutes(sessions, task_id, pk_now, end_now)

\* A variant that adds a row whether or not a session is open.
start_session_unchecked(rows, task_id, now) ==
    Append(rows, [task_id |-> task_id, start_utc |-> now, end_utc |-> NULL,
                  manual_minutes |-> 0])

\* start_session: no row is added while a timed session of the task is open
start_session(rows, task_id, now) ==
    IF \E i \in DOMAIN rows : rows[i].task_id = task_id /\ is_timed_open(rows[i])
    THEN rows
    ELSE Append(rows, [task_id |-> task_id, start_utc |-> now, end_utc |-> NULL,
                       manual_minutes |-> 0])

\* A variant that ends every open timed session, whatever its task.
stop_session_every_task(rows, task_id, now) ==
    [i \in DOMAIN rows |->
        IF is_timed_open(rows[i]) THEN [rows[i] EXCEPT !.end_utc = now] ELSE rows[i]]

\* stop_session: the open timed session found (fetchone) gets end_utc = now
stop_session(rows, task_id, now) ==
    LET open == {i \in DOMAIN rows : rows[i].task_id = task_id /\ is_timed_open(rows[i])}
    IN  IF open = {} THEN rows
        ELSE LET i == CHOOSE x \in open : \A y \in open : x <= y
             IN  [rows EXCEPT ![i].end_utc = now]

add_manual_minutes(rows, task_id, minutes, now) ==
    Append(rows, [task_id |-> task_id, start_utc |-> now, end_utc |-> now,
                  manual_minutes |-> minutes])

\* A variant that deletes every session row of the task (DELETE ... WHERE task_id=?).
delete_sessions_of_task(rows, task_id, now) ==
    LET kept(r) == r.task_id # task_id
    IN  SelectSeq(rows, kept)

\* DELETE FROM sessions, row by row, where the row's start is in the current period
delete_sessions_for_current_workweek(rows, task_id, now) ==
    LET pk == period_key_workweek(to_local(now))
        kept(r) == ~(r.task_id = task_id /\ period_key_workweek(to_local(r.start_utc)) = pk)
    IN  SelectSeq(rows, kept)

\* A variant that inserts a row whether or not there is one (no UNIQUE, no
\* OR IGNORE).
mark_complete_for_current_period_again(cs, task_id, now) ==
    Append(cs, [task_id |-> task_id, period_key |-> period_key_workweek(to_local(now)),
                completed_utc |-> now])

\* INSERT OR IGNORE INTO completions(task_id, period_key, completed_utc), on a
\* table with UNIQUE(task_id, period_key): no row is added when there is one.
mark_complete_for_current_period(cs, task_id, now) ==
    LET pk == period_key_workweek(to_local(now))
    IN  IF \E i \in DOMAIN cs : cs[i].task_id = task_id /\ cs[i].period_key = pk
        THEN cs
        ELSE Append(cs, [task_id |-> task_id, period_key |-> pk, completed_utc |-> now])

\* DELETE FROM completions WHERE task_id=? AND period_key=?
clear_completion_for_current_period(cs, task_id, now) ==
    LET pk == period_key_workweek(to_local(now))
        kept(r) == ~(r.task_id = task_id /\ r.period_key = pk)
    IN  SelectSeq(cs, kept)

\* A variant that takes a record of any period.
is_completed_for_current_period_any(task_id, now) ==
    \E i \in DOMAIN completions : completions[i].task_id = task_id

\* SELECT 1 FROM completions WHERE task_id=? AND period_key=?
is_completed_for_current_period(task_id, now) ==
    LET pk == period_key_workweek(to_local(now))
    IN  \E i \in DOMAIN completions :
            completions[i].task_id = task_id /\ completions[i].period_key = pk

----------------------------------------------------------------------------
(* engine.py *)

\* datetime.fromisoformat(snoozed_until) raises ValueError
compute_raises(sn, task_id) ==
    get_snooze_state(sn, task_id).snoozed_until_utc = BadIso

\* A variant that takes a snooze for expired only after its instant has passed.
snooze_expired_after(sn, task_id, nowu) ==
    LET until == get_snooze_state(sn, task_id).snoozed_until_utc
    IN  until # NULL /\ until # BadIso /\ nowu > until

\* The stored snooze is set and is not in the future at nowu.
snooze_expired(sn, task_id, nowu) ==
    LET until == get_snooze_state(sn, task_id).snoozed_until_utc
    IN  until # NULL /\ until # BadIso /\ ~(nowu < until)

\* The repository after compute_task_state(task_id) returned.
snoozes_after_compute(sn, task_id, nowu) ==
    IF snooze_expired(sn, task_id, nowu)
    THEN set_snoozed_until_utc(sn, task_id, NULL)
    ELSE sn

\* A variant that asks for more minutes than the goal.
done_by_minutes_of_above(goal_minutes, done_minutes) ==
    goal_minutes > 0 /\ done_minutes > goal_minutes

\* A variant that asks for exactly the goal.
done_by_minutes_of_exact(goal_minutes, done_minutes) ==
    goal_minutes > 0 /\ done_minutes = goal_minutes

\* A variant that takes every task for enabled.
enabled_of_always(task) == TRUE

\* enabled = bool(task.enabled)
enabled_of(task) == task.enabled

\* A variant for which a stored skip date skips every day.
skipped_today_of_any(skipped_date_local, today) == skipped_date_local # NULL

\* skipped_today = (snooze.skipped_date_local == today)
skipped_today_of(skipped_date_local, today) == skipped_date_local = today

\* done_by_minutes = (goal_minutes > 0 and done_minutes >= goal_minutes)
done_by_minutes_of(goal_minutes, done_minutes) ==
    goal_minutes > 0 /\ done_minutes >= goal_minutes

\* A variant in which an open session never holds a reminder back.
running_blocks_of_never(task_type, running) == FALSE

\* running_blocks = (task.task_type == TaskType.WEEKLY_TIME_QUOTA and running)
running_blocks_of(task_type, running) ==
    task_type = WEEKLY_TIME_QUOTA /\ running

\* The clock reads the repository makes during one call, in call order:
\* rd.completed (is_completed_for_current_period), rd.period and rd.end
\* (weekly_minutes_for_current_workweek).
compute_task_state(sn, task_id, nowu, nowl, st, rd) ==
    LET task == tasks[task_id]
        enabled == enabled_of(task)
        in_workweek_flag == is_in_workweek(nowl)
        active_today == weekday(nowl) \in task.active_weekdays
        snooze == get_snooze_state(sn, task_id)
        today == date(nowl)
        skipped_today == skipped_today_of(snooze.skipped_date_local, today)
        stored == snooze.snoozed_until_utc
        snoozed == stored # NULL /\ nowu < stored
        snoozed_until == IF snoozed THEN stored ELSE NULL
        rem_dt == next_reminder_datetime_local(nowl, st.reminders_start_time)
        after_start_time == nowl >= rem_dt
        completed_override == is_completed_for_current_period(task_id, rd.completed)
        quota == task.task_type = WEEKLY_TIME_QUOTA
        running == quota /\ is_session_running(task_id)
        goal_minutes ==
            IF ~quota THEN NULL
            ELSE IF task.weekly_goal_minutes = NULL THEN 0 ELSE task.weekly_goal_minutes
        done_minutes ==
            IF ~quota THEN NULL
            ELSE weekly_minutes_for_current_workweek(task_id, rd.period, rd.end)
        done_by_minutes == quota /\ done_by_minutes_of(goal_minutes, done_minutes)
        done == IF quota THEN completed_override \/ done_by_minutes ELSE completed_override
        status_text ==
            IF quota
            THEN (IF done THEN <<"DONE (this workweek)">>
                  ELSE <<done_minutes, "/", goal_minutes, " min",
                         IF running THEN " (running)" ELSE "">>)
            ELSE (IF done THEN <<"DONE">> ELSE <<"DUE">>)
        msg ==
            IF quota
            THEN (IF done THEN <<"Done for this work week.">>
                  ELSE <<"Progress: ", done_minutes, "/", goal_minutes,
                         " min this work week. Open tray panel to log/snooze.">>)
            ELSE <<"Due. Open tray panel to snooze/skip/complete.">>
        running_blocks == running_blocks_of(task.task_type, running)
        can_remind_now ==
            /\ enabled
            /\ in_workweek_flag
            /\ active_today
            /\ after_start_time
            /\ ~skipped_today
            /\ ~snoozed
            /\ ~done
            /\ ~running_blocks
    IN  [task_id |-> task_id, title |-> task.title, task_type |-> task.task_type,
         enabled |-> enabled, active_today |-> active_today,
         in_workweek |-> in_workweek_flag,
         skipped_today |-> skipped_today, snoozed |-> snoozed,
         snoozed_until_utc |-> snoozed_until,
         running |-> running,
         completed_override |-> completed_override,
         done_by_minutes |-> done_by_minutes, done |-> done,
         goal_minutes |-> goal_minutes, done_minutes |-> done_minutes,
         can_remind_now |-> can_remind_now, reminder_message |-> msg,
         status_text |-> status_text]

----------------------------------------------------------------------------
(* ui/panel.py: TrayPanel.refresh *)

\* refresh() computes every task's state at its own clock read `now`; what it
\* changes is the snooze table.  A task whose computation raises ends the loop.
RECURSIVE RefreshFrom(_, _, _)
RefreshFrom(ids, sn, now) ==
    IF ids = <<>> THEN sn
    ELSE IF compute_raises(sn, Head(ids)) THEN sn
    ELSE RefreshFrom(Tail(ids), snoozes_after_compute(sn, Head(ids), now), now)

refresh(sn, now) == RefreshFrom(list_tasks, sn, now)

\* One row of the list refresh() builds: the suffixes are taken from the stored
\* snooze state read before compute_task_state is called, the status from the
\* state it returns.
refresh_item(sn, task_id, now, st) ==
    LET snooze == get_snooze_state(sn, task_id)
        today == date(to_local(now))
        rd == [completed |-> now, period |-> now, end |-> now]
        state == compute_task_state(sn, task_id, now, to_local(now), st, rd)
    IN  [title |-> tasks[task_id].title,
         status |-> state.status_text,
         disabled |-> ~tasks[task_id].enabled,
         skipped_today |-> snooze.skipped_date_local = today,
         snoozed_until |-> snooze.snoozed_until_utc,
         state |-> state]

\* The rows added to the list, in order; a task whose computation raises ends
\* the loop.
RECURSIVE RefreshItems(_, _, _, _)
RefreshItems(ids, sn, now, st) ==
    IF ids = <<>> THEN <<>>
    ELSE IF compute_raises(sn, Head(ids)) THEN <<>>
    ELSE <<refresh_item(sn, Head(ids), now, st)>>
         \o RefreshItems(Tail(ids), snoozes_after_compute(sn, Head(ids), now), now, st)

----------------------------------------------------------------------------
(* scheduler.py *)

NoTick == [nowu |-> NULL, repeat_minutes |-> NULL, by_task |-> <<>>]
NoCall == [task_id |-> NULL]

\* A variant that takes the stored number as it is.
repeat_minutes_of_unclamped(st) == st.repeat_interval_minutes

\* repeat_minutes = max(1, int(settings.repeat_interval_minutes))
repeat_minutes_of(st) == Max(1, st.repeat_interval_minutes)

\* A variant that compares the elapsed seconds with the number of minutes.
_should_throttle_seconds(lf, task_id, nowu, repeat_minutes) ==
    IF task_id \notin DOMAIN lf THEN FALSE
    ELSE (nowu - lf[task_id]) < repeat_minutes

\* A variant that still throttles when exactly the interval has elapsed.
_should_throttle_inclusive(lf, task_id, nowu, repeat_minutes) ==
    IF task_id \notin DOMAIN lf THEN FALSE
    ELSE (nowu - lf[task_id]) <= timedelta_minutes(repeat_minutes)

_should_throttle(lf, task_id, nowu, repeat_minutes) ==
    IF task_id \notin DOMAIN lf THEN FALSE
    ELSE (nowu - lf[task_id]) < timedelta_minutes(repeat_minutes)

\* self.last_fired_utc[task_id] = nowu
_fire(lf, task_id, nowu) == (task_id :> nowu) @@ lf

ReminderEvent(task_id, title, message) ==
    [task_id |-> task_id, title |-> title, message |-> message]

\* The clock read the repository makes while task number i of the sweep is
\* computed: the clock moves on by d seconds before task number k.
ReadAt(i, nowu, k, d) == IF i >= k THEN nowu + d ELSE nowu

\* The loop of tick() from task number i on.  acc carries what the loop has
\* changed so far: sn (snooze table), lf (last_fired_utc), ev (events emitted),
\* by_task (what was computed per task), log (the latest event per task) and
\* aborted (an exception left the loop).
RECURSIVE Sweep(_, _, _, _, _, _, _)
Sweep(ids, i, acc, nowu, st, k, d) ==
    IF i > Len(ids) THEN acc
    ELSE
    LET t == ids[i]
        now_r == ReadAt(i, nowu, k, d)
        rd == [completed |-> now_r, period |-> now_r, end |-> now_r]
    IN  IF compute_raises(acc.sn, t) THEN [acc EXCEPT !.aborted = TRUE]
        ELSE
        LET state == compute_task_state(acc.sn, t, nowu, to_local(nowu), st, rd)
            sn1 == snoozes_after_compute(acc.sn, t, nowu)
            rm == repeat_minutes_of(st)
            throttled == _should_throttle(acc.lf, t, nowu, rm)
            fires == state.can_remind_now /\ ~throttled
            rec == [state |-> state, read |-> now_r, throttled |-> throttled,
                    event_before |-> acc.log[t]]
            acc1 == [acc EXCEPT !.sn = sn1, !.by_task = (t :> rec) @@ acc.by_task]
            acc2 == [acc1 EXCEPT
                        !.lf = _fire(acc.lf, t, nowu),
                        !.ev = Append(acc.ev,
                                   ReminderEvent(t, state.title, state.reminder_message)),
                        !.log = (t :> nowu) @@ acc.log,
                        \* main._on_reminder: panel.refresh() after the notification
                        !.sn = refresh(sn1, now_r)]
        IN  Sweep(ids, i + 1, IF fires THEN acc2 ELSE acc1, nowu, st, k, d)

----------------------------------------------------------------------------
(* Bounds of the model *)

\* The clock moves in steps of TickSeconds, at most MaxSteps of them after the
\* instant the run started at.
TickSeconds == 30
MaxSteps == 12

\* At most MaxSessions rows in table sessions.
MaxSessions == 2

Monday == 0
Friday == 4
Week1 == 7 * SecondsPerDay

\* The system is one hour east of UTC.
TzOffsets == {3600}

\* Where a run may start (UTC): Monday of week 1, 08:59:30 on the local clock.
StartInstants ==
    {Week1 + Monday * SecondsPerDay + time(8, 59) + 30 - 3600}

InHorizon(t) ==
    \E s \in StartInstants : s <= t /\ t <= s + MaxSteps * TickSeconds

MonToFri == {0, 1, 2, 3, 4}

----------------------------------------------------------------------------
(* main.py: the state after main() has built the application *)

\* migrate(): the defaults of table settings
DefaultSettings ==
    [repeat_interval_minutes |-> 5, reminder_start_hhmm |-> [hh |-> 9, mm |-> 0]]

\* ensure_default_task(): the two tasks created on an empty database
DefaultTasks ==
    (1 :> [title |-> "Weekly Learning (60 min)", task_type |-> WEEKLY_TIME_QUOTA,
           enabled |-> TRUE, active_weekdays |-> MonToFri,
           weekly_goal_minutes |-> 60])
    @@
    (2 :> [title |-> "Single weekly task example reminder",
           task_type |-> COMPLETE_ONCE,
           enabled |-> FALSE, active_weekdays |-> {Friday},
           weekly_goal_minutes |-> NULL])

NoLog == [t \in {1, 2} |-> NULL]

\* The second task after the user enabled it for Monday to Friday in the editor.
FoundTasks ==
    [DefaultTasks EXCEPT ![2].enabled = TRUE, ![2].active_weekdays = MonToFri]

\* The database file main() opens is the one found on disk: here one of an
\* earlier run, with both tasks enabled, and possibly with a snooze text for
\* task 1 that is not an ISO datetime.
Init ==
    /\ clock \in StartInstants
    /\ utcoffset \in TzOffsets
    /\ tasks = FoundTasks
    /\ sessions = <<>>
    /\ completions = <<>>
    /\ snoozes \in {<<>>, (1 :> [snoozed_until_utc |-> BadIso, skipped_date_local |-> NULL])}
    /\ settings = DefaultSettings
    /\ last_fired_utc = <<>>
    /\ emitted = <<>>
    /\ evaluated = NoTick
    /\ aborted = FALSE
    /\ last_event = NoLog
    /\ touched = {}
    /\ call = NoCall

----------------------------------------------------------------------------
(* Actions *)

History == <<emitted, evaluated, aborted, call>>
NoHistory ==
    /\ emitted' = <<>>
    /\ evaluated' = NoTick
    /\ aborted' = FALSE
    /\ call' = NoCall

\* Time passes.
Advance(d) ==
    /\ InHorizon(clock + d)
    /\ clock' = clock + d
    /\ NoHistory
    /\ UNCHANGED <<utcoffset, repo, last_fired_utc, last_event, touched>>

\* Scheduler.tick, with main._on_reminder connected to reminder_due.
tick(k, d) ==
    LET nowu == clock
        st == get_settings
        ids == list_tasks
        acc0 == [sn |-> snoozes, lf |-> last_fired_utc, ev |-> <<>>,
                 by_task |-> <<>>, log |-> last_event, aborted |-> FALSE]
    IN  \E out \in {Sweep(ids, 1, acc0, nowu, st, k, d)} :
        /\ clock' = clock + d
        /\ snoozes' = out.sn
        /\ last_fired_utc' = out.lf
        /\ emitted' = out.ev
        /\ evaluated' = [nowu |-> nowu, repeat_minutes |-> repeat_minutes_of(st),
                         by_task |-> out.by_task]
        /\ aborted' = out.aborted
        /\ last_event' = out.log
        /\ touched' = touched \ {out.ev[i].task_id : i \in DOMAIN out.ev}
        /\ call' = NoCall
        /\ UNCHANGED <<utcoffset, tasks, sessions, completions, settings>>

\* A tick of the scheduler's timer inside the horizon of the run.
Tick(k, d) ==
    /\ InHorizon(clock + d)
    /\ tick(k, d)

\* TrayPanel._snooze_for
SnoozeFor(t, minutes) ==
    /\ t \in DOMAIN tasks
    /\ snoozes' = refresh(set_snoozed_until_utc(snoozes, t, clock + timedelta_minutes(minutes)),
                          clock)
    /\ touched' = touched \cup {t}
    /\ NoHistory
    /\ UNCHANGED <<clock, utcoffset, tasks, sessions, completions, settings,
                   last_fired_utc, last_event>>

\* TrayPanel._skip_today
SkipToday(t) ==
    /\ t \in DOMAIN tasks
    /\ snoozes' = refresh(set_skipped_today_local(snoozes, t, date(to_local(clock))), clock)
    /\ touched' = touched \cup {t}
    /\ NoHistory
    /\ UNCHANGED <<clock, utcoffset, tasks, sessions, completions, settings,
                   last_fired_utc, last_event>>

\* A variant of _clear_snooze_skip that also forgets when the task last fired
\* (scheduler.py: "don't re-fire ... unless snooze changes").
ClearSnoozeSkip_forgets(t) ==
    /\ t \in DOMAIN tasks
    /\ snoozes' = refresh(clear_snooze_and_skip(snoozes, t), clock)
    /\ last_fired_utc' = [x \in DOMAIN last_fired_utc \ {t} |-> last_fired_utc[x]]
    /\ touched' = touched \cup {t}
    /\ NoHistory
    /\ UNCHANGED <<clock, utcoffset, tasks, sessions, completions, settings, last_event>>

\* TrayPanel._clear_snooze_skip
ClearSnoozeSkip(t) ==
    /\ t \in DOMAIN tasks
    /\ snoozes' = refresh(clear_snooze_and_skip(snoozes, t), clock)
    /\ touched' = touched \cup {t}
    /\ NoHistory
    /\ UNCHANGED <<clock, utcoffset, tasks, sessions, completions, settings,
                   last_fired_utc, last_event>>

\* TrayPanel._add_minutes_for
AddMinutes(t, minutes) ==
    /\ t \in DOMAIN tasks
    /\ tasks[t].task_type = WEEKLY_TIME_QUOTA
    /\ Len(sessions) < MaxSessions
    /\ sessions' = add_manual_minutes(sessions, t, minutes, clock)
    /\ snoozes' = refresh(snoozes, clock)
    /\ NoHistory
    /\ UNCHANGED <<clock, utcoffset, tasks, completions, settings,
                   last_fired_utc, last_event, touched>>

\* TrayPanel._toggle_session_for
ToggleSession(t) ==
    /\ t \in DOMAIN tasks
    /\ tasks[t].task_type = WEEKLY_TIME_QUOTA
    /\ IF is_session_running(t)
       THEN sessions' = stop_session(sessions, t, clock)
       ELSE /\ Len(sessions) < MaxSessions
            /\ sessions' = start_session(sessions, t, clock)
    /\ snoozes' = refresh(snoozes, clock)
    /\ NoHistory
    /\ UNCHANGED <<clock, utcoffset, tasks, completions, settings,
                   last_fired_utc, last_event, touched>>

\* TrayPanel._mark_complete_for
MarkComplete(t) ==
    /\ t \in DOMAIN tasks
    /\ completions' = mark_complete_for_current_period(completions, t, clock)
    /\ snoozes' = refresh(snoozes, clock)
    /\ NoHistory
    /\ UNCHANGED <<clock, utcoffset, tasks, sessions, settings,
                   last_fired_utc, last_event, touched>>

\* TrayPanel._reset_completion
ResetCompletion(t) ==
    /\ t \in DOMAIN tasks
    /\ completions' = clear_completion_for_current_period(completions, t, clock)
    /\ snoozes' = refresh(snoozes, clock)
    /\ NoHistory
    /\ UNCHANGED <<clock, utcoffset, tasks, sessions, settings,
                   last_fired_utc, last_event, touched>>

\* TaskEditor.save on an existing task: Repository.update_task
EditTask(t, en, wd, goal) ==
    /\ t \in DOMAIN tasks
    /\ tasks' = [tasks EXCEPT ![t].enabled = en, ![t].active_weekdays = wd,
                              ![t].weekly_goal_minutes = goal]
    /\ snoozes' = refresh(snoozes, clock)
    /\ NoHistory
    /\ UNCHANGED <<clock, utcoffset, sessions, completions, settings,
                   last_fired_utc, last_event, touched>>

\* SettingsDialog.save
SaveSettings(minutes, hh, mm) ==
    /\ settings' = [repeat_interval_minutes |-> minutes,
                    reminder_start_hhmm |-> [hh |-> hh, mm |-> mm]]
    /\ snoozes' = refresh(snoozes, clock)
    /\ NoHistory
    /\ UNCHANGED <<clock, utcoffset, tasks, sessions, completions,
                   last_fired_utc, last_event, touched>>

\* The process is quit and started again: Scheduler.__init__, TrayPanel.__init__
Restart ==
    /\ last_fired_utc' = <<>>
    /\ last_event' = NoLog
    /\ touched' = {}
    /\ snoozes' = refresh(snoozes, clock)
    /\ NoHistory
    /\ UNCHANGED <<clock, utcoffset, tasks, sessions, completions, settings>>

Drifts == {0, TickSeconds}
RepeatChoices == {5, 6}
ManualChoices == {30, 60}

\* The task the user acts on.
Acted == {1}

Next ==
    \/ \E d \in {TickSeconds, 6 * TickSeconds} : Advance(d)
    \/ \E d \in Drifts : \E k \in (IF d = 0 THEN {1} ELSE {1, 2}) : Tick(k, d)
    \/ \E t \in Acted : SnoozeFor(t, 30)
    \/ \E t \in Acted : SkipToday(t)
    \/ \E t \in Acted : ClearSnoozeSkip(t)
    \/ \E t \in Acted : \E en \in BOOLEAN :
          EditTask(t, en, tasks[t].active_weekdays, tasks[t].weekly_goal_minutes)
    \/ \E r \in RepeatChoices : SaveSettings(r, 9, 0)
    \/ Restart

Spec == Init /\ [][Next]_vars

----------------------------------------------------------------------------
(* The scheduler beside the progress actions of the task menu *)

InitQuota ==
    /\ Init
    /\ snoozes = <<>>

NextQuota ==
    \/ Advance(6 * TickSeconds)
    \/ Tick(1, 0)
    \/ \E t \in Acted : \E m \in ManualChoices : AddMinutes(t, m)
    \/ \E t \in Acted : ToggleSession(t)
    \/ \E t \in Acted : MarkComplete(t)
    \/ \E t \in Acted : ResetCompletion(t)

SpecQuota == InitQuota /\ [][NextQuota]_vars

----------------------------------------------------------------------------
(* compute_task_state on its own: the task, the stored state and the instant *)
(* are drawn from the cases below, then the function is called.              *)

Wednesday == 2
Saturday == 5
Sunday == 6

\* At most MaxDrift seconds pass between the caller's clock read and the
\* repository's own clock reads.
MaxDrift == 1

\* Local wall-clock instants of week 1.
EngineLocalInstants ==
    {Week1 + Monday * SecondsPerDay + time(8, 59) + 59,
     Week1 + Wednesday * SecondsPerDay + time(12, 0),
     Week1 + Friday * SecondsPerDay + time(23, 59) + 59,
     Week1 + Sunday * SecondsPerDay + time(23, 59) + 59}

EngineOffsets == {3600}

InEngineHorizon(t) ==
    \E l \in EngineLocalInstants : l <= to_local(t) /\ to_local(t) <= l + MaxDrift

EngineWeekdays == {MonToFri, {Saturday, Sunday}}

\* Rows of table sessions for task 1, as start_session, stop_session and
\* add_manual_minutes write them, at `now` and before it.
EngineSessions(now) ==
    LET manual(at, m) == [task_id |-> 1, start_utc |-> at, end_utc |-> at,
                          manual_minutes |-> m]
        timed(at, end) == [task_id |-> 1, start_utc |-> at, end_utc |-> end,
                           manual_minutes |-> 0]
    IN  {<<>>,
         <<manual(now - 3600, 60)>>,
         <<manual(now - Week1, 60)>>,
         <<manual(now - 7200, 30), manual(now - 3600, 15), timed(now - 600, NULL)>>,
         <<timed(now - 3659, now - 1), manual(now - 60, 59)>>,
         <<timed(now - 400, now - 310), timed(now - 200, now - 110)>>}

\* Table snoozes: no row at all, or a row for task 1 (snooze text, skip date)
\* beside a row for task 2 whose snooze is over.
EngineSnoozes(now, today) ==
    {<<>>}
    \cup {(1 :> [snoozed_until_utc |-> row[1], skipped_date_local |-> row[2]])
          @@ (2 :> [snoozed_until_utc |-> now - 60, skipped_date_local |-> today]) :
            row \in {<<NULL, NULL>>, <<BadIso, NULL>>, <<now - 60, today>>,
                     <<now - 60, NULL>>, <<now, NULL>>, <<now + 60, today - 1>>,
                     <<now + 60, NULL>>, <<NULL, today>>, <<NULL, today - 1>>}}

EngineTask1(ty, en, wd, g) ==
    [title |-> "Weekly Learning (60 min)", task_type |-> ty, enabled |-> en,
     active_weekdays |-> wd, weekly_goal_minutes |-> g]

\* Task 1 is drawn, task 2 is the second default task.  A quota task has the
\* goal of the editor's spin box, or none: TaskEditor.save stores None when the
\* type box shows "Complete once", and update_task leaves task_type alone.
EngineTasks ==
    {(1 :> EngineTask1(WEEKLY_TIME_QUOTA, en, wd, g)) @@ (2 :> DefaultTasks[2]) :
        en \in BOOLEAN, wd \in EngineWeekdays, g \in {NULL, 60}}
    \cup
    {(1 :> EngineTask1(COMPLETE_ONCE, en, wd, NULL)) @@ (2 :> DefaultTasks[2]) :
        en \in BOOLEAN, wd \in EngineWeekdays}

InitEngine ==
    /\ utcoffset \in EngineOffsets
    /\ clock \in {to_utc(l) : l \in EngineLocalInstants}
    /\ tasks \in EngineTasks
    /\ sessions \in (IF tasks[1].task_type = WEEKLY_TIME_QUOTA
                     THEN EngineSessions(clock) ELSE {<<>>})
    /\ completions \in
          {<<>>} \cup
          {<<[task_id |-> 1, period_key |-> period_key_workweek(to_local(at)),
              completed_utc |-> at]>> : at \in {clock, clock - Week1}}
    /\ snoozes \in EngineSnoozes(clock, date(to_local(clock)))
    /\ settings \in {DefaultSettings,
                     [DefaultSettings EXCEPT !.reminder_start_hhmm = [hh |-> 12, mm |-> 0]]}
    /\ last_fired_utc = <<>>
    /\ emitted = <<>>
    /\ evaluated = NoTick
    /\ aborted = FALSE
    /\ last_event = NoLog
    /\ touched = {}
    /\ call = NoCall

\* One call compute_task_state(repo, task, now_utc(), to_local(now_utc()), settings).
\* The repository reads the clock again: its reads number j and later come d
\* seconds after the caller's.
Compute(t, j, d) ==
    LET nowu == clock
        rd == [completed |-> IF j <= 1 THEN nowu + d ELSE nowu,
               period |-> IF j <= 2 THEN nowu + d ELSE nowu,
               end |-> nowu + d]
        before == [tasks |-> tasks, sessions |-> sessions, completions |-> completions,
                   snoozes |-> snoozes, settings |-> settings]
    IN  /\ t \in DOMAIN tasks
        /\ InEngineHorizon(nowu + d)
        /\ clock' = nowu + d
        /\ IF compute_raises(snoozes, t)
           THEN /\ call' = [task_id |-> t, nowu |-> nowu, rd |-> rd, raised |-> TRUE,
                            before |-> before]
                /\ snoozes' = snoozes
           ELSE /\ call' = [task_id |-> t, nowu |-> nowu, rd |-> rd, raised |-> FALSE,
                            before |-> before,
                            state |-> compute_task_state(snoozes, t, nowu, to_local(nowu),
                                                         get_settings, rd)]
                /\ snoozes' = snoozes_after_compute(snoozes, t, nowu)
        /\ UNCHANGED <<utcoffset, tasks, sessions, completions, settings,
                       last_fired_utc, emitted, evaluated, aborted, last_event, touched>>

NextEngine ==
    \E t \in {1, 2} : \E d \in {0, MaxDrift} : \E j \in (IF d = 0 THEN {1} ELSE 1..3) :
        Compute(t, j, d)

SpecEngine == InitEngine /\ [][NextEngine]_vars

----------------------------------------------------------------------------
(* The scheduler's tick over the tasks, stored states and instants drawn for *)
(* compute_task_state, with the editor's enabled box and "Skip today".       *)

EngineTick(k, d) ==
    /\ InEngineHorizon(clock + d)
    /\ tick(k, d)

NextSweep ==
    \/ \E d \in {0, MaxDrift} : \E k \in (IF d = 0 THEN {1} ELSE {1, 2}) : EngineTick(k, d)
    \/ \E t \in Acted : \E en \in BOOLEAN :
          EditTask(t, en, tasks[t].active_weekdays, tasks[t].weekly_goal_minutes)
    \/ \E t \in Acted : SkipToday(t)

SpecSweep == InitEngine /\ [][NextSweep]_vars

----------------------------------------------------------------------------
(* The repository's session operations called on their own, as a test or a   *)
(* caller other than the panel calls them, beside the scheduler.             *)

\* What a call of a repository operation leaves for the properties to read.
RepoCall(op, t) ==
    /\ call' = [op |-> op, task_id |-> t,
                before |-> [sessions |-> sessions, completions |-> completions]]
    /\ emitted' = <<>>
    /\ evaluated' = NoTick
    /\ aborted' = FALSE

\* Repository.start_session(t)
StartSession(t) ==
    /\ t \in DOMAIN tasks
    /\ Len(start_session(sessions, t, clock)) <= MaxSessions
    /\ sessions' = start_session(sessions, t, clock)
    /\ RepoCall("start_session", t)
    /\ UNCHANGED <<clock, utcoffset, tasks, completions, snoozes, settings,
                   last_fired_utc, last_event, touched>>

\* Repository.stop_session(t)
StopSession(t) ==
    /\ t \in DOMAIN tasks
    /\ sessions' = stop_session(sessions, t, clock)
    /\ RepoCall("stop_session", t)
    /\ UNCHANGED <<clock, utcoffset, tasks, completions, snoozes, settings,
                   last_fired_utc, last_event, touched>>

\* Repository.add_manual_minutes(t, minutes)
AddManualMinutes(t, minutes) ==
    /\ t \in DOMAIN tasks
    /\ Len(sessions) < MaxSessions
    /\ sessions' = add_manual_minutes(sessions, t, minutes, clock)
    /\ RepoCall("add_manual_minutes", t)
    /\ UNCHANGED <<clock, utcoffset, tasks, completions, snoozes, settings,
                   last_fired_utc, last_event, touched>>

\* Repository.delete_sessions_for_current_workweek(t)
DeleteSessions(t) ==
    /\ t \in DOMAIN tasks
    /\ sessions' = delete_sessions_for_current_workweek(sessions, t, clock)
    /\ RepoCall("delete_sessions_for_current_workweek", t)
    /\ UNCHANGED <<clock, utcoffset, tasks, completions, snoozes, settings,
                   last_fired_utc, last_event, touched>>

\* The database found holds no session, or a timed session of task 1 that was
\* started a week ago and never stopped.
InitSessions ==
    /\ clock \in StartInstants
    /\ utcoffset \in TzOffsets
    /\ tasks = FoundTasks
    /\ sessions \in {<<>>, start_session(<<>>, 1, clock - Week1)}
    /\ completions = <<>>
    /\ snoozes = <<>>
    /\ settings = DefaultSettings
    /\ last_fired_utc = <<>>
    /\ emitted = <<>>
    /\ evaluated = NoTick
    /\ aborted = FALSE
    /\ last_event = NoLog
    /\ touched = {}
    /\ call = NoCall

NextSessions ==
    \/ Advance(6 * TickSeconds)
    \/ Tick(1, 0)
    \/ \E t \in DOMAIN tasks : StartSession(t)
    \/ \E t \in DOMAIN tasks : StopSession(t)
    \/ \E t \in DOMAIN tasks : AddManualMinutes(t, 60)
    \/ \E t \in DOMAIN tasks : DeleteSessions(t)

SpecSessions == InitSessions /\ [][NextSessions]_vars

----------------------------------------------------------------------------
(* The repository's completion operations called on their own, beside the    *)
(* scheduler.                                                                *)

\* Repository.mark_complete_for_current_period(t)
MarkCompleteForCurrentPeriod(t) ==
    /\ t \in DOMAIN tasks
    /\ completions' = mark_complete_for_current_period(completions, t, clock)
    /\ RepoCall("mark_complete_for_current_period", t)
    /\ UNCHANGED <<clock, utcoffset, tasks, sessions, snoozes, settings,
                   last_fired_utc, last_event, touched>>

\* Repository.clear_completion_for_current_period(t)
ClearCompletionForCurrentPeriod(t) ==
    /\ t \in DOMAIN tasks
    /\ completions' = clear_completion_for_current_period(completions, t, clock)
    /\ RepoCall("clear_completion_for_current_period", t)
    /\ UNCHANGED <<clock, utcoffset, tasks, sessions, snoozes, settings,
                   last_fired_utc, last_event, touched>>

\* The database found holds no completion record, or one of task 1 for the
\* week before.
InitCompletions ==
    /\ clock \in StartInstants
    /\ utcoffset \in TzOffsets
    /\ tasks = FoundTasks
    /\ sessions = <<>>
    /\ completions \in {<<>>, mark_complete_for_current_period(<<>>, 1, clock - Week1)}
    /\ snoozes = <<>>
    /\ settings = DefaultSettings
    /\ last_fired_utc = <<>>
    /\ emitted = <<>>
    /\ evaluated = NoTick
    /\ aborted = FALSE
    /\ last_event = NoLog
    /\ touched = {}
    /\ call = NoCall

NextCompletions ==
    \/ Advance(6 * TickSeconds)
    \/ Tick(1, 0)
    \/ \E t \in DOMAIN tasks : MarkCompleteForCurrentPeriod(t)
    \/ \E t \in DOMAIN tasks : ClearCompletionForCurrentPeriod(t)
    \/ \E t \in Acted : \E m \in ManualChoices : AddManualMinutes(t, m)

SpecCompletions == InitCompletions /\ [][NextCompletions]_vars

----------------------------------------------------------------------------
(* periods.py on its own: the window and the key of local instants           *)

\* The local instants are taken from weeks 1 to MaxWeeks.
MaxWeeks == 2

\* Monday 00:00:00 and 08:59:59, Wednesday 12:00:00, Friday 23:59:59,
\* Saturday 00:00:00 and Sunday 23:59:59 of each week.
PeriodInstants ==
    {w * Week1 + o : w \in 1..MaxWeeks,
                     o \in {Monday * SecondsPerDay,
                            Monday * SecondsPerDay + time(8, 59) + 59,
                            Wednesday * SecondsPerDay + time(12, 0),
                            Friday * SecondsPerDay + time(23, 59) + 59,
                            Saturday * SecondsPerDay,
                            Sunday * SecondsPerDay + time(23, 59) + 59}}

InitPeriods ==
    /\ clock \in StartInstants
    /\ utcoffset \in TzOffsets
    /\ tasks = DefaultTasks
    /\ sessions = <<>>
    /\ completions = <<>>
    /\ snoozes = <<>>
    /\ settings = DefaultSettings
    /\ last_fired_utc = <<>>
    /\ emitted = <<>>
    /\ evaluated = NoTick
    /\ aborted = FALSE
    /\ last_event = NoLog
    /\ touched = {}
    /\ call = NoCall

\* workweek_window_for, is_in_workweek and period_key_workweek are called for
\* local instant t1, period_key_workweek for t2 and for t1 - timedelta(days=7).
Periods(t1, t2) ==
    /\ call' = [t1 |-> t1, t2 |-> t2,
                window |-> workweek_window_for(t1),
                in_workweek |-> is_in_workweek(t1),
                key1 |-> period_key_workweek(t1),
                key2 |-> period_key_workweek(t2),
                key_week_before |-> period_key_workweek(t1 - Week1)]
    /\ UNCHANGED <<clock, utcoffset, repo, last_fired_utc, emitted, evaluated,
                   aborted, last_event, touched>>

NextPeriods == \E t1, t2 \in PeriodInstants : Periods(t1, t2)

SpecPeriods == InitPeriods /\ [][NextPeriods]_vars

----------------------------------------------------------------------------
(* split_interval_by_workweek on its own, and the week the repository counts *)
(* the interval in                                                           *)

\* Local instants around the edges of the window: Monday 00:00:00, Wednesday
\* 12:00:00, 12:00:59 and 12:01:45, Friday 23:30:00 and 23:59:59, Saturday
\* 00:00:00, 00:30:00, 10:00:00 and 11:00:00, Sunday 23:59:59 of week 1, and
\* Monday 00:00:00 and 08:00:00 of week 2.
SplitLocalInstants ==
    {Week1 + o : o \in {Monday * SecondsPerDay,
                        Wednesday * SecondsPerDay + time(12, 0),
                        Wednesday * SecondsPerDay + time(12, 0) + 59,
                        Wednesday * SecondsPerDay + time(12, 1) + 45,
                        Friday * SecondsPerDay + time(23, 30),
                        Friday * SecondsPerDay + time(23, 59) + 59,
                        Saturday * SecondsPerDay,
                        Saturday * SecondsPerDay + time(0, 30),
                        Saturday * SecondsPerDay + time(10, 0),
                        Saturday * SecondsPerDay + time(11, 0),
                        Sunday * SecondsPerDay + time(23, 59) + 59,
                        Week1 + Monday * SecondsPerDay,
                        Week1 + Monday * SecondsPerDay + time(8, 0)}}

\* split_interval_by_workweek(start_utc, end_utc) with the window it takes, and
\* what weekly_minutes_for_current_workweek adds for a timed session row with
\* that start and end when its clock read is the start, and a week after the
\* start.
Split(start_utc, end_utc) ==
    LET row == [task_id |-> 1, start_utc |-> start_utc, end_utc |-> end_utc,
                manual_minutes |-> 0]
    IN  /\ call' = [start_utc |-> start_utc, end_utc |-> end_utc,
                    window |-> workweek_window_for(to_local(start_utc)),
                    minutes |-> split_interval_by_workweek(start_utc, end_utc),
                    in_week_of_start |-> session_minutes(row, start_utc, start_utc),
                    in_week_after |-> session_minutes(row, start_utc + Week1,
                                                      start_utc + Week1)]
        /\ UNCHANGED <<clock, utcoffset, repo, last_fired_utc, emitted, evaluated,
                       aborted, last_event, touched>>

NextSplit ==
    \E s, e \in SplitLocalInstants : Split(to_utc(s), to_utc(e))

SpecSplit == InitPeriods /\ [][NextSplit]_vars

----------------------------------------------------------------------------
(* The stored settings written through the repository's setters, as a caller *)
(* other than the settings dialog writes them, beside the scheduler.         *)

\* Texts stored under reminder_start_hhmm: "09:00", "09:02", "9" (no colon),
\* "09:00:00" (three parts), "ab:00" (not a number), "24:00" and "09:60" (out
\* of range).
StartTexts ==
    {[hh |-> 9, mm |-> 0], [hh |-> 9, mm |-> 2], [hh |-> 9],
     [hh |-> 9, mm |-> 0, ss |-> 0], [hh |-> NotInt, mm |-> 0],
     [hh |-> 24, mm |-> 0], [hh |-> 9, mm |-> 60]}

\* Numbers stored under repeat_interval_minutes.
RepeatValues == {-5, 0, 1, 2, 5}

\* Repository.get_settings()
GetSettings ==
    /\ call' = [settings |-> get_settings, stored |-> settings]
    /\ emitted' = <<>>
    /\ evaluated' = NoTick
    /\ aborted' = FALSE
    /\ UNCHANGED <<clock, utcoffset, repo, last_fired_utc, last_event, touched>>

\* Repository.set_reminder_start_hhmm(text)
SetReminderStartHhmm(text) ==
    /\ settings' = [settings EXCEPT !.reminder_start_hhmm = text]
    /\ NoHistory
    /\ UNCHANGED <<clock, utcoffset, tasks, sessions, completions, snoozes,
                   last_fired_utc, last_event, touched>>

\* Repository.set_repeat_interval_minutes(minutes), to another number than the
\* one stored.
SetRepeatIntervalMinutes(minutes) ==
    /\ minutes # settings.repeat_interval_minutes
    /\ settings' = [settings EXCEPT !.repeat_interval_minutes = minutes]
    /\ NoHistory
    /\ UNCHANGED <<clock, utcoffset, tasks, sessions, completions, snoozes,
                   last_fired_utc, last_event, touched>>

NextSettings ==
    \/ Advance(TickSeconds)
    \/ Tick(1, 0)
    \/ GetSettings
    \/ \E text \in StartTexts : SetReminderStartHhmm(text)
    \/ \E r \in RepeatValues : SetRepeatIntervalMinutes(r)

SpecSettings == InitQuota /\ [][NextSettings]_vars

----------------------------------------------------------------------------
(* Lookups: get_task, get_snooze_state and compute_task_state called one     *)
(* after another over the tasks and stored states drawn for the engine.      *)

\* Ids looked up: the two tasks and an id no task ever had.
LookupIds == {1, 2, 3}

\* Repository.delete_task(t): the rows of its sessions, completions and snooze
\* go with the task (ON DELETE CASCADE).
DeleteTask(t) ==
    LET others(r) == r.task_id # t
    IN  /\ t \in DOMAIN tasks
        /\ tasks' = [x \in DOMAIN tasks \ {t} |-> tasks[x]]
        /\ sessions' = SelectSeq(sessions, others)
        /\ completions' = SelectSeq(completions, others)
        /\ snoozes' = [x \in DOMAIN snoozes \ {t} |-> snoozes[x]]
        /\ NoHistory
        /\ UNCHANGED <<clock, utcoffset, settings, last_fired_utc, last_event, touched>>

\* get_task(id), then get_snooze_state(t) and compute_task_state for task t.
Lookup(t, id) ==
    LET nowu == clock
        rd == [completed |-> nowu, period |-> nowu, end |-> nowu]
        found == [id |-> id, raised |-> get_task_raises(id),
                  task |-> IF get_task_raises(id) THEN "KeyError" ELSE get_task(id)]
    IN  /\ t \in DOMAIN tasks
        /\ call' = [get_task |-> found,
                    t |-> t,
                    had_row |-> t \in DOMAIN snoozes,
                    snooze |-> get_snooze_state(snoozes, t),
                    raised |-> compute_raises(snoozes, t),
                    state |-> IF compute_raises(snoozes, t) THEN "ValueError"
                              ELSE compute_task_state(snoozes, t, nowu, to_local(nowu),
                                                      get_settings, rd)]
        /\ snoozes' = IF compute_raises(snoozes, t) THEN snoozes
                      ELSE snoozes_after_compute(snoozes, t, nowu)
        /\ emitted' = <<>>
        /\ evaluated' = NoTick
        /\ aborted' = FALSE
        /\ UNCHANGED <<clock, utcoffset, tasks, sessions, completions, settings,
                       last_fired_utc, last_event, touched>>

NextLookup ==
    \/ \E t \in {1, 2} : \E id \in LookupIds : Lookup(t, id)
    \/ DeleteTask(2)

\* The database holds no completion record and the settings are the defaults.
InitLookup ==
    /\ InitEngine
    /\ completions = <<>>
    /\ settings = DefaultSettings

SpecLookup == InitLookup /\ [][NextLookup]_vars

----------------------------------------------------------------------------
(* The panel's refresh beside the scheduler's tick, over the tasks and       *)
(* stored states drawn for the engine.                                       *)

\* TrayPanel.refresh, as the refresh timer and _show_panel call it.
PanelRefresh ==
    /\ call' = [shown |-> RefreshItems(list_tasks, snoozes, clock, get_settings),
                nowu |-> clock]
    /\ snoozes' = refresh(snoozes, clock)
    /\ emitted' = <<>>
    /\ evaluated' = NoTick
    /\ aborted' = FALSE
    /\ UNCHANGED <<clock, utcoffset, tasks, sessions, completions, settings,
                   last_fired_utc, last_event, touched>>

NextPanel ==
    \/ PanelRefresh
    \/ \E d \in {0, MaxDrift} : EngineTick(1, d)

SpecPanel == InitLookup /\ [][NextPanel]_vars

----------------------------------------------------------------------------
(* A week with a daylight-saving transition: local_tz() gives the offset of  *)
(* the moment it is called, and to_local() applies it to every instant.      *)

\* The zone's clocks change by DstShift seconds at UTC instant DstAt, Sunday
\* 01:00 UTC of week 1: forward when the offset before is 0, back when it is
\* DstShift.
DstShift == 3600
DstAt == Week1 + Sunday * SecondsPerDay + time(1, 0)

\* The offset the zone has at UTC instant t, the system clock standing at
\* `clock` with offset `utcoffset`.
ZoneOffsetAt(t) ==
    IF (t >= DstAt) <=> (clock >= DstAt) THEN utcoffset ELSE DstShift - utcoffset

\* The UTC instant at which the zone's wall clock shows l, for l before the
\* transition.
BeforeDst(l) == l - ZoneOffsetAt(DstAt - 1)

\* Where the system clock stands when the functions are called (UTC): Friday
\* 23:45, Saturday 12:00, Sunday 00:59:59, 01:00:00 and 12:00 of week 1, Monday
\* 09:00 of week 2.
DstClockInstants ==
    {Week1 + o : o \in {Friday * SecondsPerDay + time(23, 45),
                        Saturday * SecondsPerDay + time(12, 0),
                        Sunday * SecondsPerDay + time(0, 59) + 59,
                        Sunday * SecondsPerDay + time(1, 0),
                        Sunday * SecondsPerDay + time(12, 0),
                        Week1 + Monday * SecondsPerDay + time(9, 0)}}

\* Wall-clock starts of the intervals, all in week 1 before the transition:
\* Monday 00:10 and 08:00, Wednesday 12:00, Friday 22:00, 23:00, 23:20 and
\* 23:29.
DstLocalStarts ==
    {Week1 + o : o \in {Monday * SecondsPerDay + time(0, 10),
                        Monday * SecondsPerDay + time(8, 0),
                        Wednesday * SecondsPerDay + time(12, 0),
                        Friday * SecondsPerDay + time(22, 0),
                        Friday * SecondsPerDay + time(23, 0),
                        Friday * SecondsPerDay + time(23, 20),
                        Friday * SecondsPerDay + time(23, 29)}}

\* The intervals last 30 or 60 minutes.
DstMinutes == {30, 60}

\* The run starts on Friday 23:45 UTC, in winter or in summer time.
InitDst ==
    /\ clock = Week1 + Friday * SecondsPerDay + time(23, 45)
    /\ utcoffset \in {0, DstShift}
    /\ tasks = DefaultTasks
    /\ sessions = <<>>
    /\ completions = <<>>
    /\ snoozes = <<>>
    /\ settings = DefaultSettings
    /\ last_fired_utc = <<>>
    /\ emitted = <<>>
    /\ evaluated = NoTick
    /\ aborted = FALSE
    /\ last_event = NoLog
    /\ touched = {}
    /\ call = NoCall

\* Time passes; the system's offset changes when the clock passes DstAt.
DstAdvance(to) ==
    /\ to \in DstClockInstants
    /\ to > clock
    /\ clock' = to
    /\ utcoffset' = IF clock < DstAt /\ to >= DstAt THEN DstShift - utcoffset
                    ELSE utcoffset
    /\ NoHistory
    /\ UNCHANGED <<repo, last_fired_utc, last_event, touched>>

NextDst ==
    \/ \E to \in DstClockInstants : DstAdvance(to)
    \/ \E l \in DstLocalStarts : \E m \in DstMinutes :
          Split(BeforeDst(l), BeforeDst(l) + timedelta_minutes(m))

SpecDst == InitDst /\ [][NextDst]_vars

----------------------------------------------------------------------------
(* From one week into the next: completion records and the scheduler while   *)
(* the clock goes from Friday night to Monday morning.                       *)

\* Where the clock stands (local): Friday 23:59:30, Saturday 00:00:00 and
\* Sunday 23:59:59 of week 1, Monday 00:00:00 and 09:00:00 of week 2.
RolloverLocalInstants ==
    {Week1 + o : o \in {Friday * SecondsPerDay + time(23, 59) + 30,
                        Saturday * SecondsPerDay,
                        Sunday * SecondsPerDay + time(23, 59) + 59,
                        Week1 + Monday * SecondsPerDay,
                        Week1 + Monday * SecondsPerDay + time(9, 0)}}

InitRollover ==
    /\ utcoffset \in TzOffsets
    /\ clock = to_utc(Week1 + Friday * SecondsPerDay + time(23, 59) + 30)
    /\ tasks = FoundTasks
    /\ sessions = <<>>
    /\ completions = <<>>
    /\ snoozes = <<>>
    /\ settings = DefaultSettings
    /\ last_fired_utc = <<>>
    /\ emitted = <<>>
    /\ evaluated = NoTick
    /\ aborted = FALSE
    /\ last_event = NoLog
    /\ touched = {}
    /\ call = NoCall

\* Time passes, to a later one of the instants.
RollAdvance(to) ==
    /\ to_local(to) \in RolloverLocalInstants
    /\ to > clock
    /\ clock' = to
    /\ NoHistory
    /\ UNCHANGED <<utcoffset, repo, last_fired_utc, last_event, touched>>

\* A tick of the scheduler's timer at one of the instants.
RollTick ==
    /\ to_local(clock) \in RolloverLocalInstants
    /\ tick(1, 0)

NextRollover ==
    \/ \E l \in RolloverLocalInstants : RollAdvance(to_utc(l))
    \/ RollTick
    \/ \E t \in DOMAIN tasks : MarkCompleteForCurrentPeriod(t)

SpecRollover == InitRollover /\ [][NextRollover]_vars

----------------------------------------------------------------------------
(* The repository's snooze and skip operations called on their own, beside   *)
(* the scheduler.                                                            *)

\* What a call of one of them leaves for the properties to read.
SnoozeCall(op, t, arg) ==
    /\ call' = [op |-> op, task_id |-> t, arg |-> arg, before |-> [snoozes |-> snoozes]]
    /\ emitted' = <<>>
    /\ evaluated' = NoTick
    /\ aborted' = FALSE

\* Repository.set_snoozed_until_utc(t, iso_utc)
SetSnoozedUntilUtc(t, iso_utc) ==
    /\ t \in DOMAIN tasks
    /\ snoozes' = set_snoozed_until_utc(snoozes, t, iso_utc)
    /\ SnoozeCall("set_snoozed_until_utc", t, iso_utc)
    /\ UNCHANGED <<clock, utcoffset, tasks, sessions, completions, settings,
                   last_fired_utc, last_event, touched>>

\* Repository.set_skipped_today_local(t, yyyy_mm_dd)
SetSkippedTodayLocal(t, yyyy_mm_dd) ==
    /\ t \in DOMAIN tasks
    /\ snoozes' = set_skipped_today_local(snoozes, t, yyyy_mm_dd)
    /\ SnoozeCall("set_skipped_today_local", t, yyyy_mm_dd)
    /\ UNCHANGED <<clock, utcoffset, tasks, sessions, completions, settings,
                   last_fired_utc, last_event, touched>>

\* Repository.clear_snooze_and_skip(t)
ClearSnoozeAndSkip(t) ==
    /\ t \in DOMAIN tasks
    /\ snoozes' = clear_snooze_and_skip(snoozes, t)
    /\ SnoozeCall("clear_snooze_and_skip", t, NULL)
    /\ UNCHANGED <<clock, utcoffset, tasks, sessions, completions, settings,
                   last_fired_utc, last_event, touched>>

NextSnoozes ==
    \/ Advance(6 * TickSeconds)
    \/ Tick(1, 0)
    \/ \E t \in DOMAIN tasks : \E iso_utc \in {NULL, clock + timedelta_minutes(30)} :
          SetSnoozedUntilUtc(t, iso_utc)
    \/ \E t \in DOMAIN tasks : \E d \in {NULL, date(to_local(clock))} :
          SetSkippedTodayLocal(t, d)
    \/ \E t \in DOMAIN tasks : ClearSnoozeAndSkip(t)

SpecSnoozes == InitQuota /\ [][NextSnoozes]_vars

----------------------------------------------------------------------------
(* Deleting a task: Repository.delete_task beside the scheduler and the       *)
(* operations that write rows for a task.                                    *)

\* A variant on a connection without PRAGMA foreign_keys=ON: the task's row
\* goes, the rows that refer to it stay.
DeleteTaskCall_no_cascade(t) ==
    /\ t \in DOMAIN tasks
    /\ tasks' = [x \in DOMAIN tasks \ {t} |-> tasks[x]]
    /\ call' = [op |-> "delete_task", task_id |-> t,
                before |-> [tasks |-> tasks, sessions |-> sessions,
                            completions |-> completions, snoozes |-> snoozes]]
    /\ emitted' = <<>>
    /\ evaluated' = NoTick
    /\ aborted' = FALSE
    /\ UNCHANGED <<clock, utcoffset, sessions, completions, snoozes, settings,
                   last_fired_utc, last_event, touched>>

\* Repository.delete_task(t) on the connection of db.connect: DELETE FROM tasks
\* WHERE id=?, and with it the rows of sessions, completions and snoozes that
\* refer to the task (REFERENCES tasks(id) ON DELETE CASCADE).  The scheduler's
\* last_fired_utc is no table and keeps its entry.
DeleteTaskCall(t) ==
    LET others(r) == r.task_id # t
    IN  /\ t \in DOMAIN tasks
        /\ tasks' = [x \in DOMAIN tasks \ {t} |-> tasks[x]]
        /\ sessions' = SelectSeq(sessions, others)
        /\ completions' = SelectSeq(completions, others)
        /\ snoozes' = [x \in DOMAIN snoozes \ {t} |-> snoozes[x]]
        /\ call' = [op |-> "delete_task", task_id |-> t,
                    before |-> [tasks |-> tasks, sessions |-> sessions,
                                completions |-> completions, snoozes |-> snoozes]]
        /\ emitted' = <<>>
        /\ evaluated' = NoTick
        /\ aborted' = FALSE
        /\ UNCHANGED <<clock, utcoffset, settings, last_fired_utc, last_event, touched>>

NextDelete ==
    \/ Advance(6 * TickSeconds)
    \/ Tick(1, 0)
    \/ \E t \in DOMAIN tasks : AddManualMinutes(t, 30)
    \/ \E t \in DOMAIN tasks : MarkCompleteForCurrentPeriod(t)
    \/ \E t \in DOMAIN tasks : SetSkippedTodayLocal(t, date(to_local(clock)) - 1)
    \/ \E t \in DOMAIN tasks : DeleteTaskCall(t)

SpecDelete == InitQuota /\ [][NextDelete]_vars

----------------------------------------------------------------------------
(* The snooze and skip entries of the task context menu, beside the          *)
(* scheduler.                                                                *)

\* _snooze_tomorrow_start reads settings.reminder_start_time; the object that
\* get_settings returns raises AttributeError for a name it does not have.
_snooze_tomorrow_start_raises == "reminder_start_time" \notin DOMAIN get_settings

\* The rest of _snooze_tomorrow_start, which runs when the read returns:
\* tomorrow's local date at the start time, as UTC, is stored, then refresh().
_snooze_tomorrow_start(sn, task_id, now) ==
    LET nowl == to_local(now)
        tomorrow == date(nowl) + 1
        start_time == get_settings.reminder_start_time
        dt_local == tomorrow * SecondsPerDay + start_time
        dt_utc == to_utc(dt_local)
    IN  refresh(set_snoozed_until_utc(sn, task_id, dt_utc), now)

\* The menu entry "Until tomorrow at 09:00" is triggered for task t.
SnoozeTomorrowStart(t) ==
    /\ t \in DOMAIN tasks
    /\ snoozes' = IF _snooze_tomorrow_start_raises THEN snoozes
                  ELSE _snooze_tomorrow_start(snoozes, t, clock)
    /\ touched' = IF _snooze_tomorrow_start_raises THEN touched ELSE touched \cup {t}
    /\ call' = [op |-> "_snooze_tomorrow_start", task_id |-> t, nowu |-> clock,
                raised |-> _snooze_tomorrow_start_raises,
                before |-> [snoozes |-> snoozes]]
    /\ emitted' = <<>>
    /\ evaluated' = NoTick
    /\ aborted' = FALSE
    /\ UNCHANGED <<clock, utcoffset, tasks, sessions, completions, settings,
                   last_fired_utc, last_event>>

NextMenu ==
    \/ Advance(6 * TickSeconds)
    \/ Tick(1, 0)
    \/ \E t \in DOMAIN tasks : SnoozeFor(t, 30)
    \/ \E t \in DOMAIN tasks : SkipToday(t)
    \/ \E t \in DOMAIN tasks : ClearSnoozeSkip(t)
    \/ \E t \in DOMAIN tasks : SnoozeTomorrowStart(t)
    \/ \E hh \in {9, 10} : SaveSettings(settings.repeat_interval_minutes, hh, 0)

SpecMenu == InitQuota /\ [][NextMenu]_vars

----------------------------------------------------------------------------
(* Properties *)

\* The latest step was a compute_task_state call that returned a state.
Returned == call.task_id # NULL /\ ~call.raised

\* The latest tick emitted a reminder event for task t.
Fired(t) == \E i \in DOMAIN emitted : emitted[i].task_id = t

\* The stored reminder start time as seconds after local midnight, 09:00 when
\* the stored text is no time of day.
StoredStart(st) ==
    IF st.reminder_start_hhmm.hh \in 0..23 /\ st.reminder_start_hhmm.mm \in 0..59
    THEN st.reminder_start_hhmm.hh * 3600 + st.reminder_start_hhmm.mm * 60
    ELSE 9 * 3600

\* The snooze text and the skip date stored for task t in table sn.
StoredUntil(sn, t) == IF t \in DOMAIN sn THEN sn[t].snoozed_until_utc ELSE NULL
StoredSkip(sn, t) == IF t \in DOMAIN sn THEN sn[t].skipped_date_local ELSE NULL

\* C1: compute_task_state returns can_remind_now = true exactly when the task
\* is enabled, the local instant is a Monday-to-Friday instant (inside the
\* workweek window), its weekday is one of the task's active weekdays, its
\* time of day is at or after the configured start time, the stored skip date
\* is not today, the stored snooze instant is not in the future, the task is
\* not done, and it is not a quota task with an open timed session.
C1_CanRemindIff ==
    Returned =>
        LET t == call.task_id
            b == call.before
            l == call.nowu + utcoffset
            day == l \div 86400
            until == StoredUntil(b.snoozes, t)
            open == \E i \in DOMAIN b.sessions :
                        /\ b.sessions[i].task_id = t
                        /\ b.sessions[i].end_utc = NULL
                        /\ b.sessions[i].manual_minutes = 0
        IN  call.state.can_remind_now <=>
                /\ b.tasks[t].enabled
                /\ day % 7 \in 0..4
                /\ day % 7 \in b.tasks[t].active_weekdays
                /\ l % 86400 >= StoredStart(b.settings)
                /\ StoredSkip(b.snoozes, t) # day
                /\ ~(until # NULL /\ call.nowu < until)
                /\ ~call.state.done
                /\ ~(b.tasks[t].task_type = WEEKLY_TIME_QUOTA /\ open)

C1_Witness == Returned /\ call.state.can_remind_now

\* C2: within one run of the scheduler, when a tick emits a reminder for a
\* task that had an earlier reminder in this run, the tick's instant is at
\* least the stored repeat interval (in minutes) after the earlier one; with
\* an interval of 5 minutes a tick 3 minutes after the task's reminder emits
\* none for it.
C2_RepeatGap ==
    \A t \in DOMAIN evaluated.by_task :
        LET before == evaluated.by_task[t].event_before
        IN  before # NULL =>
                /\ Fired(t) =>
                      evaluated.nowu - before >= settings.repeat_interval_minutes * 60
                /\ (settings.repeat_interval_minutes = 5 /\ evaluated.nowu - before = 180)
                      => ~Fired(t)

C2_Witness ==
    \E t \in DOMAIN evaluated.by_task :
        /\ Fired(t)
        /\ evaluated.by_task[t].event_before # NULL
        /\ evaluated.by_task[t].event_before < evaluated.nowu

\* C3: when a tick computes can_remind_now = true for a task whose latest
\* reminder was at T, and the tick's instant is at least the repeat interval
\* after T (exactly equal included), the tick emits the event {task_id, title,
\* message} of that task and records its own instant as the task's last-fired
\* time.
C3_RefireAfterInterval ==
    \A t \in DOMAIN evaluated.by_task :
        LET rec == evaluated.by_task[t]
            minutes == IF settings.repeat_interval_minutes < 1 THEN 1
                       ELSE settings.repeat_interval_minutes
        IN  (/\ rec.state.can_remind_now
             /\ rec.event_before # NULL
             /\ evaluated.nowu - rec.event_before >= minutes * 60)
            => /\ \E i \in DOMAIN emitted :
                     emitted[i] = [task_id |-> t, title |-> tasks[t].title,
                                   message |-> rec.state.reminder_message]
               /\ t \in DOMAIN last_fired_utc
               /\ last_fired_utc[t] = evaluated.nowu

C3_Witness ==
    \E t \in DOMAIN evaluated.by_task :
        /\ Fired(t)
        /\ evaluated.by_task[t].event_before # NULL
        /\ evaluated.nowu - evaluated.by_task[t].event_before
              = settings.repeat_interval_minutes * 60

C5_ExpiredSnoozeCleared ==
    Returned =>
        LET t == call.task_id
            until == StoredUntil(call.before.snoozes, t)
        IN  /\ (until # NULL /\ until <= call.nowu) =>
                  /\ ~call.state.snoozed
                  /\ call.state.snoozed_until_utc = NULL
                  /\ StoredUntil(snoozes, t) = NULL
            /\ (until # NULL /\ call.nowu < until) =>
                  /\ call.state.snoozed
                  /\ StoredUntil(snoozes, t) = until
            /\ until = NULL =>
                  /\ ~call.state.snoozed
                  /\ snoozes = call.before.snoozes

\* The call came at the very instant the snooze ran out.
C5_Witness ==
    /\ Returned
    /\ StoredUntil(call.before.snoozes, call.task_id) = call.nowu
    /\ StoredUntil(snoozes, call.task_id) = NULL

\* C6: a compute_task_state call leaves tasks, settings, sessions and
\* completion records as they were, leaves every other task's snooze row as it
\* was, and of the task's own row changes nothing but an expired snooze
\* instant, which it clears: the row stays, and so does its skip date.
C6_OnlyExpiredSnoozeCleared ==
    call.task_id # NULL =>
        LET t == call.task_id
            b == call.before
        IN  /\ tasks = b.tasks
            /\ settings = b.settings
            /\ sessions = b.sessions
            /\ completions = b.completions
            /\ DOMAIN snoozes = DOMAIN b.snoozes
            /\ \A o \in DOMAIN snoozes : o # t => snoozes[o] = b.snoozes[o]
            /\ StoredSkip(snoozes, t) = StoredSkip(b.snoozes, t)
            /\ \/ StoredUntil(snoozes, t) = StoredUntil(b.snoozes, t)
               \/ /\ StoredUntil(snoozes, t) = NULL
                  /\ StoredUntil(b.snoozes, t) >= 0
                  /\ StoredUntil(b.snoozes, t) <= call.nowu

\* The call cleared the expired snooze of a task that is skipped today, beside
\* another task whose snooze is over as well.
C6_Witness ==
    /\ Returned
    /\ call.task_id = 1
    /\ StoredUntil(call.before.snoozes, 1) >= 0
    /\ StoredUntil(snoozes, 1) = NULL
    /\ StoredSkip(snoozes, 1) # NULL
    /\ StoredUntil(snoozes, 2) >= 0

\* C7: a tick evaluates every task of the list, also when the computation of
\* another task's state fails (here: its stored snooze text is no ISO
\* datetime), and reminds each task it finds eligible and not throttled.
C7_SweepIsolatesFailure ==
    evaluated.nowu # NULL =>
        \A t \in DOMAIN tasks :
            StoredUntil(snoozes, t) # BadIso =>
                /\ t \in DOMAIN evaluated.by_task
                /\ (/\ evaluated.by_task[t].state.can_remind_now
                    /\ ~evaluated.by_task[t].throttled) => Fired(t)

\* C8: within one tick, the instant the repository uses for a task's period
\* key and for the end of its open session is the instant the tick captured
\* when it started.
C8_OneInstantPerTick ==
    \A t \in DOMAIN evaluated.by_task :
        evaluated.by_task[t].read = evaluated.nowu

\* The current period of a call: the key of the week (its Monday's date) of
\* the local instant at which the repository looks the completion record up.
CompletionFor(c) ==
    LET l == c.rd.completed + utcoffset
        day == l \div 86400
    IN  \E i \in DOMAIN c.before.completions :
            /\ c.before.completions[i].task_id = c.task_id
            /\ c.before.completions[i].period_key = <<"workweek", day - (day % 7)>>

\* C9 as stated: done is true for a quota task exactly when a completion
\* record exists for the current period or the accumulated minutes are at
\* least the goal, a goal that is unset counting as 0; for a complete-once task
\* exactly when a completion record exists for the current period.
C9_DoneIff_AsStated ==
    Returned =>
        IF call.before.tasks[call.task_id].task_type = WEEKLY_TIME_QUOTA
        THEN call.state.done <=>
                \/ CompletionFor(call)
                \/ call.state.done_minutes >= call.state.goal_minutes
        ELSE call.state.done <=> CompletionFor(call)

\* C9, amended: done is true for a quota task exactly when a completion
\* record exists for the current period or the goal is greater than 0 and the
\* accumulated minutes are at least the goal; for a complete-once task exactly
\* when a completion record exists for the current period.
C9_DoneIff ==
    Returned =>
        IF call.before.tasks[call.task_id].task_type = WEEKLY_TIME_QUOTA
        THEN call.state.done <=>
                \/ CompletionFor(call)
                \/ /\ call.state.goal_minutes > 0
                   /\ call.state.done_minutes >= call.state.goal_minutes
        ELSE call.state.done <=> CompletionFor(call)

\* A quota task is done by its minutes alone, which just reach the goal.
C9_Witness ==
    /\ Returned
    /\ call.before.tasks[call.task_id].task_type = WEEKLY_TIME_QUOTA
    /\ ~CompletionFor(call)
    /\ call.state.done_minutes = call.state.goal_minutes
    /\ call.state.done

\* C10: a tick that computes done_minutes >= goal_minutes > 0 for a quota task
\* computes done = true and can_remind_now = false for it, with or without a
\* completion record, and emits no reminder for it.
C10_QuotaReachedNoReminder ==
    \A t \in DOMAIN evaluated.by_task :
        LET st == evaluated.by_task[t].state
        IN  (/\ tasks[t].task_type = WEEKLY_TIME_QUOTA
             /\ st.goal_minutes > 0
             /\ st.done_minutes >= st.goal_minutes)
            => st.done /\ ~st.can_remind_now /\ ~Fired(t)

\* The minutes just reach the goal, no completion record exists, and but for
\* being done the task could be reminded.
C10_Witness ==
    /\ 1 \in DOMAIN evaluated.by_task
    /\ evaluated.by_task[1].state.done_minutes = 60
    /\ evaluated.by_task[1].state.goal_minutes = 60
    /\ ~evaluated.by_task[1].state.completed_override
    /\ ~evaluated.by_task[1].state.running
    /\ evaluated.by_task[1].state.active_today
    /\ evaluated.nowu + utcoffset >= Week1 + 9 * 3600
    /\ ~evaluated.by_task[1].throttled

\* C11: a tick computes can_remind_now = false for every task whose enabled
\* flag is false, whatever the weekday, the time of day, the snooze, the skip,
\* the sessions and the completion records are, and the reminder events of a
\* tick name no task that is disabled at that tick.
C11_DisabledNeverReminded ==
    \A t \in DOMAIN tasks :
        (evaluated.nowu # NULL /\ ~tasks[t].enabled) =>
            /\ ~Fired(t)
            /\ t \in DOMAIN evaluated.by_task =>
                  ~evaluated.by_task[t].state.can_remind_now

\* Task 1 is disabled and nothing else holds its reminder back.
C11_Witness ==
    /\ 1 \in DOMAIN evaluated.by_task
    /\ ~tasks[1].enabled
    /\ LET st == evaluated.by_task[1].state
       IN  /\ st.in_workweek /\ st.active_today
           /\ ~st.skipped_today /\ ~st.snoozed /\ ~st.done /\ ~st.running
           /\ (evaluated.nowu + utcoffset) % 86400 >= StoredStart(settings)
    /\ ~evaluated.by_task[1].throttled

\* The rows of table ss that are timed sessions of task t still open.
OpenRows(ss, t) ==
    {i \in DOMAIN ss : ss[i].task_id = t /\ ss[i].end_utc = NULL /\ ss[i].manual_minutes = 0}

\* C12: whatever start_session, stop_session, add_manual_minutes and
\* delete_sessions_for_current_workweek calls were made, every task has at
\* most one session row with no end and manual_minutes = 0; and a
\* start_session call made while the task has such a row leaves table sessions
\* as it was.
C12_OneOpenSession ==
    /\ \A t \in DOMAIN tasks : Cardinality(OpenRows(sessions, t)) <= 1
    /\ (/\ call.task_id # NULL
        /\ call.op = "start_session"
        /\ OpenRows(call.before.sessions, call.task_id) # {})
       => sessions = call.before.sessions

\* start_session was called for a task whose session is open, beside a row of
\* manual minutes.
C12_Witness ==
    /\ call.task_id # NULL
    /\ call.op = "start_session"
    /\ OpenRows(call.before.sessions, call.task_id) # {}
    /\ \E i \in DOMAIN sessions : sessions[i].manual_minutes > 0

\* The key of the week of UTC instant t: "workweek" and the date of its Monday.
WeekKey(t) ==
    LET day == (t + utcoffset) \div 86400
    IN  <<"workweek", day - (day % 7)>>

\* The rows of table cs that are records of task t for the period of key pk.
CompletionRows(cs, t, pk) ==
    {i \in DOMAIN cs : cs[i].task_id = t /\ cs[i].period_key = pk}

\* C13: table completions never holds two records of one task for one period
\* key; a mark_complete_for_current_period call made when the task has a
\* record for the current period leaves the table as it was; a tick that finds
\* a record of a quota task for the current period computes done = true for it
\* whatever its minutes are; and a clear_completion_for_current_period call
\* leaves no record of the task for the current period, and leaves every other
\* record, so that a tick computes the override exactly from the record.
C13_CompletionPerPeriod ==
    /\ \A i, j \in DOMAIN completions :
          (/\ completions[i].task_id = completions[j].task_id
           /\ completions[i].period_key = completions[j].period_key) => i = j
    /\ (/\ call.task_id # NULL
        /\ call.op = "mark_complete_for_current_period"
        /\ CompletionRows(call.before.completions, call.task_id, WeekKey(clock)) # {})
       => completions = call.before.completions
    /\ (call.task_id # NULL /\ call.op = "clear_completion_for_current_period") =>
          LET b == call.before.completions
              gone == CompletionRows(b, call.task_id, WeekKey(clock))
          IN  /\ CompletionRows(completions, call.task_id, WeekKey(clock)) = {}
              /\ Len(completions) = Len(b) - Cardinality(gone)
              /\ \A i \in DOMAIN b \ gone : \E j \in DOMAIN completions : completions[j] = b[i]
    /\ \A t \in DOMAIN evaluated.by_task :
          LET st == evaluated.by_task[t].state
              has == CompletionRows(completions, t, WeekKey(evaluated.nowu)) # {}
          IN  /\ st.completed_override <=> has
              /\ has => st.done

\* The task was marked complete a second time in one period, and holds a
\* record of an earlier period as well.
C13_Witness ==
    /\ call.task_id # NULL
    /\ call.op = "mark_complete_for_current_period"
    /\ CompletionRows(call.before.completions, call.task_id, WeekKey(clock)) # {}
    /\ CompletionRows(completions, call.task_id, WeekKey(clock - 604800)) # {}

\* C14: a tick emits no reminder event for a quota task that has an open timed
\* session; for a complete-once task it computes running = false and no
\* minutes, and can_remind_now from the enabled flag, the weekday, the time of
\* day, the skip, the snooze and the completion record alone, whatever session
\* rows are stored for the task.
C14_RunningBlocksQuotaOnly ==
    \A t \in DOMAIN evaluated.by_task :
        LET st == evaluated.by_task[t].state
            l == evaluated.nowu + utcoffset
            day == l \div 86400
            until == StoredUntil(snoozes, t)
        IN  IF tasks[t].task_type = WEEKLY_TIME_QUOTA
            THEN OpenRows(sessions, t) # {} => ~Fired(t)
            ELSE /\ ~st.running
                 /\ st.done_minutes = NULL
                 /\ st.goal_minutes = NULL
                 /\ st.can_remind_now <=>
                        /\ tasks[t].enabled
                        /\ day % 7 \in 0..4
                        /\ day % 7 \in tasks[t].active_weekdays
                        /\ l % 86400 >= StoredStart(settings)
                        /\ StoredSkip(snoozes, t) # day
                        /\ ~(until # NULL /\ evaluated.nowu < until)
                        /\ CompletionRows(completions, t, WeekKey(evaluated.nowu)) = {}

\* The quota task is held back by its open session in the tick that reminds
\* the complete-once task, which has an open session row as well.
C14_Witness ==
    /\ 1 \in DOMAIN evaluated.by_task
    /\ 2 \in DOMAIN evaluated.by_task
    /\ OpenRows(sessions, 1) # {}
    /\ OpenRows(sessions, 2) # {}
    /\ ~evaluated.by_task[1].state.done
    /\ ~Fired(1)
    /\ Fired(2)

\* The minutes row r counts for in call c: nothing when its start is in another
\* week than the repository's clock read; its manual minutes when it has any;
\* else the whole minutes of [start, end or the repository's clock read) that
\* lie between Monday 00:00 and Saturday 00:00 of the start's week.
ClaimedRowMinutes(r, c) ==
    LET s0 == r.start_utc + utcoffset
        e0 == (IF r.end_utc = NULL THEN c.rd.end ELSE r.end_utc) + utcoffset
        mon == (s0 \div 604800) * 604800
        a == IF s0 >= mon THEN s0 ELSE mon
        b == IF e0 <= mon + 432000 THEN e0 ELSE mon + 432000
    IN  IF WeekKey(r.start_utc) # WeekKey(c.rd.period) THEN 0
        ELSE IF r.manual_minutes > 0 THEN r.manual_minutes
        ELSE IF b <= a THEN 0 ELSE (b - a) \div 60

RECURSIVE ClaimedMinutes(_, _)
ClaimedMinutes(rows, c) ==
    IF rows = <<>> THEN 0
    ELSE (IF Head(rows).task_id = c.task_id THEN ClaimedRowMinutes(Head(rows), c) ELSE 0)
         + ClaimedMinutes(Tail(rows), c)

\* C15: for a quota task, done_minutes is the sum over the task's session rows
\* of this period of the manual minutes and, per timed session, of the whole
\* minutes of [start, end-or-now) inside the window, each session floored on
\* its own; while the task is not done the status text is "<done>/<goal> min",
\* with " (running)" after it exactly when a timed session is open; and with
\* goal 60, two manual entries of 45 minutes together and a timed session
\* opened 10 minutes ago, on a day of the workweek and without a completion
\* record, the state has done_minutes = 55, done = false, running = true,
\* can_remind_now = false and the status text "55/60 min (running)".
C15_QuotaMinutes ==
    (Returned /\ call.before.tasks[call.task_id].task_type = WEEKLY_TIME_QUOTA) =>
        LET t == call.task_id
            st == call.state
            ss == call.before.sessions
            open == OpenRows(ss, t) # {}
        IN  /\ st.done_minutes = ClaimedMinutes(ss, call)
            /\ st.running <=> open
            /\ ~st.done =>
                  st.status_text = <<st.done_minutes, "/", st.goal_minutes, " min",
                                     IF open THEN " (running)" ELSE "">>
            /\ (/\ st.goal_minutes = 60
                /\ Len(ss) = 3
                /\ ss[1].manual_minutes + ss[2].manual_minutes = 45
                /\ ss[3] = [task_id |-> t, start_utc |-> call.nowu - 600,
                            end_utc |-> NULL, manual_minutes |-> 0]
                /\ ((call.nowu + utcoffset) \div 86400) % 7 \in 0..4
                /\ ~CompletionFor(call))
               => /\ st.done_minutes = 55
                  /\ ~st.done
                  /\ st.running
                  /\ ~st.can_remind_now
                  /\ st.status_text = <<55, "/", 60, " min", " (running)">>

\* The scenario: 30 and 15 manual minutes and a session opened 10 minutes ago.
C15_Witness ==
    /\ Returned
    /\ Len(call.before.sessions) = 3
    /\ call.state.done_minutes = 55
    /\ call.state.running
    /\ call.before.tasks[call.task_id].enabled
    /\ call.state.active_today
    /\ ~call.state.can_remind_now
    /\ call.state.status_text = <<55, "/", 60, " min", " (running)">>

\* Nothing but the time of day holds the reminder of evaluated task t back.
OtherwiseEligible(t) ==
    LET st == evaluated.by_task[t].state
    IN  /\ tasks[t].enabled /\ st.in_workweek /\ st.active_today
        /\ ~st.skipped_today /\ ~st.snoozed /\ ~st.done /\ ~st.running

\* C16: a tick whose local time of day is before the configured reminder start
\* time emits no reminder at all and computes can_remind_now = false for every
\* task, on every day; from the start time on (the start time itself included)
\* the time of day holds no task back.
C16_StartTimeGate ==
    evaluated.nowu # NULL =>
        LET tod == (evaluated.nowu + utcoffset) % 86400
        IN  /\ tod < StoredStart(settings) =>
                  /\ emitted = <<>>
                  /\ \A t \in DOMAIN evaluated.by_task :
                        ~evaluated.by_task[t].state.can_remind_now
            /\ tod >= StoredStart(settings) =>
                  \A t \in DOMAIN evaluated.by_task :
                      OtherwiseEligible(t) => evaluated.by_task[t].state.can_remind_now

\* One second before the start time: task 1 would be reminded but for the
\* time of day.
C16_Witness ==
    /\ 1 \in DOMAIN evaluated.by_task
    /\ OtherwiseEligible(1)
    /\ (evaluated.nowu + utcoffset) % 86400 = StoredStart(settings) - 1
    /\ ~Fired(1)

\* What a tick computes from the skip date stored for a task.
C17_State ==
    \A t \in DOMAIN evaluated.by_task :
        LET st == evaluated.by_task[t].state
            l == evaluated.nowu + utcoffset
            day == l \div 86400
        IN  /\ st.skipped_today <=> StoredSkip(snoozes, t) = day
            /\ st.skipped_today => ~st.can_remind_now /\ ~Fired(t)
            /\ (/\ StoredSkip(snoozes, t) # day
                /\ tasks[t].enabled /\ st.in_workweek /\ st.active_today
                /\ l % 86400 >= StoredStart(settings)
                /\ ~st.snoozed /\ ~st.done /\ ~st.running)
               => st.can_remind_now

\* C17: a tick finds a task skipped exactly when the skip date stored for it
\* is the tick's local date, and then emits no reminder for it; with a skip
\* date of another day (the day before, say) the skip holds nothing back; and
\* no tick changes or clears a stored skip date.
C17_SkipIsDayScoped ==
    [][/\ evaluated'.nowu # NULL =>
             \A t \in DOMAIN tasks : StoredSkip(snoozes', t) = StoredSkip(snoozes, t)
       /\ C17_State']_vars

\* Task 1 is reminded on the day after its skip, whose date is still stored.
C17_Witness ==
    /\ 1 \in DOMAIN evaluated.by_task
    /\ StoredSkip(snoozes, 1) = ((evaluated.nowu + utcoffset) \div 86400) - 1
    /\ Fired(1)

\* The latest step called the period functions.
PeriodsCalled == "t1" \in DOMAIN call

\* Monday 00:00 of the week of local instant t, and whether t lies from there
\* up to but excluding Saturday 00:00.
MondayOf(t) == (t \div 604800) * 604800
InWindow(t) == t - MondayOf(t) < 432000

\* C18: for a local instant t, workweek_window_for(t) starts at Monday 00:00 of
\* t's week and ends at the Saturday 00:00 after it, and is_in_workweek(t) is
\* true exactly from Monday 00:00 up to but excluding Saturday 00:00.
C18_WorkweekWindow ==
    PeriodsCalled =>
        /\ call.window = [start_local |-> MondayOf(call.t1),
                          end_local |-> MondayOf(call.t1) + 432000]
        /\ call.in_workweek <=> InWindow(call.t1)

\* is_in_workweek was asked about Saturday 00:00 itself.
C18_Witness ==
    /\ PeriodsCalled
    /\ call.t1 = call.window.end_local
    /\ ~call.in_workweek

\* C19: two instants inside one workweek window have the same key, "workweek"
\* with the date of the window's Monday, and the key of an instant differs
\* from the key of the instant 7 days before it.
C19_KeyStableInWindow ==
    PeriodsCalled =>
        /\ (/\ MondayOf(call.t1) = MondayOf(call.t2)
            /\ InWindow(call.t1) /\ InWindow(call.t2))
           => /\ call.key1 = call.key2
              /\ call.key1 = <<"workweek", MondayOf(call.t1) \div 86400>>
        /\ call.key1 # call.key_week_before

\* The keys of Monday 00:00:00 and of Friday 23:59:59 of one week.
C19_Witness ==
    /\ PeriodsCalled
    /\ call.t1 = MondayOf(call.t1)
    /\ call.t2 = call.t1 + 432000 - 1
    /\ call.key1 = call.key2

\* C20: two local instants have the same period key exactly when both lie in
\* one and the same workweek window [Monday 00:00, Saturday 00:00).
C20_SameKeyIffSameWindow ==
    PeriodsCalled =>
        (call.key1 = call.key2 <=>
            /\ MondayOf(call.t1) = MondayOf(call.t2)
            /\ InWindow(call.t1) /\ InWindow(call.t2))

\* C21: as local time advances by one second, the period key changes exactly
\* when the later instant is a window boundary, Monday 00:00 or Saturday
\* 00:00, and at no other instant.
C21_KeyChangesAtBoundaries ==
    (PeriodsCalled /\ call.t2 = call.t1 + 1) =>
        (call.key1 # call.key2 <=>
            \/ call.t2 % 604800 = 0
            \/ call.t2 % 604800 = 432000)

\* The latest step called split_interval_by_workweek.
SplitCalled == "start_utc" \in DOMAIN call

\* C22: for an interval that starts inside a workweek window and ends after
\* that window's Saturday 00:00, split_interval_by_workweek returns the whole
\* minutes from the start to Saturday 00:00 (Friday 23:30 to Saturday 00:30
\* gives 30), and the repository counts them in the week of the start, not in
\* the week after.
C22_CrossingCountsUpToSaturday ==
    SplitCalled =>
        LET s == call.start_utc + utcoffset
            e == call.end_utc + utcoffset
            sat == MondayOf(s) + 432000
        IN  (InWindow(s) /\ e > sat) =>
                /\ call.minutes = (sat - s) \div 60
                /\ (s % 604800 = 430200 /\ e = s + 3600) => call.minutes = 30
                /\ call.in_week_of_start = call.minutes
                /\ call.in_week_after = 0

\* Friday 23:30 to Saturday 00:30.
C22_Witness ==
    /\ SplitCalled
    /\ (call.start_utc + utcoffset) % 604800 = 430200
    /\ call.end_utc = call.start_utc + 3600
    /\ call.minutes = 30
    /\ call.in_week_of_start = 30

\* C23: for an interval [start, end) that lies wholly inside one workweek
\* window, split_interval_by_workweek returns the seconds from start to end
\* divided by 60 and rounded down.
C23_WholeMinutesFloor ==
    SplitCalled =>
        LET s == call.start_utc + utcoffset
            e == call.end_utc + utcoffset
        IN  (InWindow(s) /\ s <= e /\ e <= MondayOf(s) + 432000) =>
                /\ call.minutes * 60 <= e - s
                /\ e - s < (call.minutes + 1) * 60

\* An interval of 59 seconds counts 0 minutes.
C23_Witness ==
    /\ SplitCalled
    /\ InWindow(call.start_utc + utcoffset)
    /\ call.end_utc - call.start_utc = 59
    /\ call.minutes = 0

\* C24: split_interval_by_workweek never returns a negative number, and
\* returns 0 when end <= start and when the local start lies on a Saturday or
\* a Sunday, whatever the end is (an end on the following Monday included).
C24_EmptyIntervalIsZero ==
    SplitCalled =>
        LET s == call.start_utc + utcoffset
            e == call.end_utc + utcoffset
        IN  /\ call.minutes >= 0
            /\ e <= s => call.minutes = 0
            /\ ((s \div 86400) % 7 \in {5, 6}) => call.minutes = 0

\* From Sunday 23:59:59 to 08:00 of the Monday after it.
C24_Witness ==
    /\ SplitCalled
    /\ (call.start_utc + utcoffset) % 604800 = 604799
    /\ call.end_utc - call.start_utc = 28801
    /\ call.minutes = 0

\* The stored text is not two parts that are an hour 0..23 and a minute 0..59.
Malformed(text) ==
    ~(/\ DOMAIN text = {"hh", "mm"}
      /\ text.hh \in 0..23
      /\ text.mm \in 0..59)

\* C25: with a stored reminder start time that is no valid HH:MM time of day
\* (wrong shape, a part that is no number, an hour or a minute out of range),
\* get_settings returns 09:00 as the start time, and a tick ends without an
\* error, having computed every task with the gate at 09:00.
C25_MalformedStartFallsBack ==
    /\ ("settings" \in DOMAIN call /\ Malformed(call.stored.reminder_start_hhmm)) =>
          call.settings.reminders_start_time = 32400
    /\ (evaluated.nowu # NULL /\ Malformed(settings.reminder_start_hhmm)) =>
          /\ ~aborted
          /\ DOMAIN evaluated.by_task = DOMAIN tasks
          /\ \A t \in DOMAIN tasks :
                OtherwiseEligible(t) =>
                    (evaluated.by_task[t].state.can_remind_now
                        <=> (evaluated.nowu + utcoffset) % 86400 >= 32400)

\* The tick at 09:00:00 reminds task 1 while the stored text is "24:00".
C25_Witness ==
    /\ evaluated.nowu # NULL
    /\ settings.reminder_start_hhmm = [hh |-> 24, mm |-> 0]
    /\ (evaluated.nowu + utcoffset) % 86400 = 32400
    /\ Fired(1)

\* The latest step made the lookups.
LookedUp == "get_task" \in DOMAIN call

\* C26: for an existing task without a stored snooze/skip record,
\* get_snooze_state returns a state with no snooze instant and no skip date,
\* and compute_task_state returns, without an error, snoozed = false and
\* skipped_today = false; get_task raises KeyError exactly for an id that no
\* task has, and returns the task otherwise.
C26_AbsenceIsNotFailure ==
    LookedUp =>
        /\ ~call.had_row =>
              /\ call.snooze = [snoozed_until_utc |-> NULL, skipped_date_local |-> NULL]
              /\ ~call.raised
              /\ ~call.state.snoozed
              /\ call.state.snoozed_until_utc = NULL
              /\ ~call.state.skipped_today
        /\ call.get_task.raised <=> call.get_task.id \notin DOMAIN tasks
        /\ IF call.get_task.id \in DOMAIN tasks
           THEN call.get_task.task = tasks[call.get_task.id]
           ELSE call.get_task.task = "KeyError"

\* Task 1 has no record and is found eligible, and get_task was called for the
\* task deleted before.
C26_Witness ==
    /\ LookedUp
    /\ call.t = 1
    /\ ~call.had_row
    /\ call.state.can_remind_now
    /\ call.get_task.id = 2
    /\ call.get_task.raised

\* C27: whatever number r is stored as the repeat interval, 0 and negative
\* numbers included, a tick throttles by max(1, r) minutes, r being the number
\* stored when the tick runs: a task found eligible is reminded exactly when it
\* had no reminder in this run or its latest one is at least max(1, r) minutes
\* back.
C27_RepeatClampedAndFresh ==
    evaluated.nowu # NULL =>
        LET r == settings.repeat_interval_minutes
            w == IF r < 1 THEN 1 ELSE r
        IN  /\ evaluated.repeat_minutes = w
            /\ \A t \in DOMAIN evaluated.by_task :
                  LET rec == evaluated.by_task[t]
                      recent == /\ rec.event_before # NULL
                                /\ evaluated.nowu - rec.event_before < w * 60
                  IN  /\ rec.throttled <=> recent
                      /\ rec.state.can_remind_now => (Fired(t) <=> ~recent)

\* With -5 stored, task 1 is reminded again one minute after its reminder.
C27_Witness ==
    /\ 1 \in DOMAIN evaluated.by_task
    /\ settings.repeat_interval_minutes = -5
    /\ evaluated.by_task[1].event_before # NULL
    /\ evaluated.nowu - evaluated.by_task[1].event_before = 60
    /\ Fired(1)

\* The latest step was a refresh of the panel.
Refreshed == "shown" \in DOMAIN call

\* C28: what a panel refresh shows for a task agrees with the TaskState
\* computed for it in that refresh: the status is the state's status text,
\* the task is annotated "skipped today" exactly when the state says
\* skipped_today, and "snoozed until" exactly when the state says snoozed.
C28_PanelAgreesWithEngine ==
    Refreshed =>
        \A i \in DOMAIN call.shown :
            LET it == call.shown[i]
            IN  /\ it.status = it.state.status_text
                /\ it.skipped_today <=> it.state.skipped_today
                /\ it.snoozed_until # NULL <=> it.state.snoozed

\* C29: in a week with a daylight-saving transition, the window taken for an
\* instant of that week starts at 00:00 of the Monday and ends at 00:00 of the
\* Saturday of the week the zone's wall clock showed at that instant, and an
\* interval of 30 minutes that starts and ends on one day inside that window
\* counts 30 minutes.
C29_DstWeekBoundaries ==
    SplitCalled =>
        LET s == call.start_utc + ZoneOffsetAt(call.start_utc)
            e == call.end_utc + ZoneOffsetAt(call.end_utc)
        IN  /\ call.window = [start_local |-> MondayOf(s),
                              end_local |-> MondayOf(s) + 432000]
            /\ (/\ call.end_utc - call.start_utc = 1800
                /\ s \div 86400 = e \div 86400
                /\ InWindow(s))
               => call.minutes = 30

\* What a tick computes for a complete-once task from its completion records.
C30_State ==
    \A t \in DOMAIN evaluated.by_task :
        LET st == evaluated.by_task[t].state
            l == evaluated.nowu + utcoffset
            has == CompletionRows(completions, t, WeekKey(evaluated.nowu)) # {}
        IN  tasks[t].task_type = COMPLETE_ONCE =>
                /\ st.done <=> has
                /\ (/\ ~has
                    /\ tasks[t].enabled
                    /\ (l \div 86400) % 7 \in tasks[t].active_weekdays
                    /\ (l \div 86400) % 7 \in 0..4
                    /\ l % 86400 >= StoredStart(settings)
                    /\ ~st.skipped_today /\ ~st.snoozed)
                   => st.can_remind_now

\* C30: a tick finds a complete-once task done exactly when a completion
\* record of the task has the period key of the tick's local instant; once the
\* key has changed and no new record was written the task is not done and,
\* nothing else holding it back, can be reminded; no tick and no passing of
\* time changes table completions, so the old record stays.
C30_OldRecordDoesNotCarryOver ==
    [][/\ (evaluated'.nowu # NULL \/ clock' # clock) => completions' = completions
       /\ C30_State']_vars

\* On Monday 09:00 of the next week the complete-once task is reminded again,
\* its record of the week before still stored.
C30_Witness ==
    /\ 2 \in DOMAIN evaluated.by_task
    /\ CompletionRows(completions, 2, WeekKey(evaluated.nowu - 604800)) # {}
    /\ CompletionRows(completions, 2, WeekKey(evaluated.nowu)) = {}
    /\ ~evaluated.by_task[2].state.done
    /\ Fired(2)

\* C31: at a tick, the timed sessions of a quota task whose start lies in an
\* earlier period add nothing to done_minutes, ended or still open: the minutes
\* are those of the rows whose start is in the tick's period alone; and while
\* such a session is open the task is running and gets no reminder.
C31_EarlierPeriodSessionCountsZero ==
    \A t \in DOMAIN evaluated.by_task :
        LET rec == evaluated.by_task[t]
            c == [task_id |-> t, rd |-> [end |-> rec.read, period |-> rec.read]]
            InCurrent(r) == WeekKey(r.start_utc) = WeekKey(rec.read)
        IN  tasks[t].task_type = WEEKLY_TIME_QUOTA =>
                /\ rec.state.done_minutes = ClaimedMinutes(SelectSeq(sessions, InCurrent), c)
                /\ (\A i \in DOMAIN sessions :
                        sessions[i].task_id = t => ~InCurrent(sessions[i]))
                   => rec.state.done_minutes = 0
                /\ OpenRows(sessions, t) # {} =>
                      /\ rec.state.running
                      /\ ~rec.state.can_remind_now
                      /\ ~Fired(t)

\* The session opened a week ago is still open at a tick after the start time:
\* no minutes, running, no reminder.
C31_Witness ==
    /\ 1 \in DOMAIN evaluated.by_task
    /\ \E i \in OpenRows(sessions, 1) :
          WeekKey(sessions[i].start_utc) = WeekKey(evaluated.nowu - 604800)
    /\ evaluated.by_task[1].state.done_minutes = 0
    /\ evaluated.by_task[1].state.running
    /\ (evaluated.nowu + utcoffset) % 86400 >= 32400
    /\ ~Fired(1)

\* The minutes of the rows of call c's task that lie within the workweek window
\* of the repository's clock read: a row whose start is on the Saturday or the
\* Sunday counts for nothing, any other row for what it counts in its period.
RECURSIVE WindowMinutes(_, _)
WindowMinutes(rows, c) ==
    IF rows = <<>> THEN 0
    ELSE (IF Head(rows).task_id = c.task_id /\ InWindow(Head(rows).start_utc + utcoffset)
          THEN ClaimedRowMinutes(Head(rows), c) ELSE 0)
         + WindowMinutes(Tail(rows), c)

\* C32: for a quota task, done_minutes counts only minutes that fall between
\* Monday 00:00 and Saturday 00:00 of the current week: neither a timed session
\* nor a manual entry whose start is on the Saturday or the Sunday of the week
\* adds anything.
C32_OnlyWindowMinutes ==
    (Returned /\ call.before.tasks[call.task_id].task_type = WEEKLY_TIME_QUOTA) =>
        call.state.done_minutes = WindowMinutes(call.before.sessions, call)

\* C33: a tick whose local instant is on a Saturday or a Sunday emits no
\* reminder event for any task, a task whose active weekdays hold 5 or 6
\* included: every state computed at it has in_workweek false.
C33_NoReminderOnWeekend ==
    (evaluated # NoTick /\ ((evaluated.nowu + utcoffset) \div 86400) % 7 \in {5, 6}) =>
        /\ emitted = <<>>
        /\ \A t \in DOMAIN evaluated.by_task :
              /\ ~evaluated.by_task[t].state.in_workweek
              /\ ~evaluated.by_task[t].state.can_remind_now

\* A Sunday tick finds task 1 enabled and active on Saturday and Sunday, after
\* the start time, neither snoozed nor skipped nor done nor running, and emits
\* nothing.
C33_Witness ==
    /\ evaluated # NoTick
    /\ ((evaluated.nowu + utcoffset) \div 86400) % 7 = 6
    /\ 1 \in DOMAIN evaluated.by_task
    /\ tasks[1].active_weekdays = {5, 6}
    /\ LET st == evaluated.by_task[1].state
       IN  /\ st.enabled /\ st.active_today
           /\ ~st.snoozed /\ ~st.skipped_today /\ ~st.done /\ ~st.running
    /\ (evaluated.nowu + utcoffset) % 86400 >= StoredStart(settings)
    /\ emitted = <<>>

\* The rows of table ss that are timed sessions of task t with an end.
ClosedRows(ss, t) ==
    {i \in DOMAIN ss : ss[i].task_id = t /\ ss[i].end_utc # NULL /\ ss[i].manual_minutes = 0}

\* The rows of table ss that belong to another task than t, in table order.
RowsOfOthers(ss, t) ==
    LET other(r) == r.task_id # t
    IN  SelectSeq(ss, other)

\* C34: stop_session gives the task's open timed session the end `now` and
\* changes nothing else, after which is_session_running is false and the
\* session counts for the same minutes whatever the time; with no open session
\* it changes nothing; and start_session followed by stop_session leaves the
\* task with exactly one closed timed session more and none open, the rows of
\* the other tasks as they were.
C34_StopClosesTheOpenSession ==
    [][
          /\ (call'.task_id # NULL /\ call'.op = "stop_session") =>
             LET t == call'.task_id
                 b == call'.before.sessions
                 open == OpenRows(b, t)
             IN  /\ open = {} => sessions' = b
                 /\ open # {} =>
                       \E i \in open :
                          /\ sessions' = [b EXCEPT ![i].end_utc = clock']
                          /\ \A later \in {0, 60, 3600} :
                                session_minutes(sessions'[i], clock' + later, clock' + later)
                                   = session_minutes(sessions'[i], clock', clock')
                 /\ OpenRows(sessions', t) = {}
                 /\ \A u \in DOMAIN tasks : u = t => ~is_session_running(u)'
          /\ (/\ call.task_id # NULL /\ call.op = "start_session"
              /\ call'.task_id = call.task_id /\ call'.op = "stop_session") =>
             LET t == call.task_id
                 b == call.before.sessions
             IN  /\ Cardinality(ClosedRows(sessions', t)) = Cardinality(ClosedRows(b, t)) + 1
                 /\ OpenRows(sessions', t) = {}
                 /\ RowsOfOthers(sessions', t) = RowsOfOthers(b, t)
                 /\ Len(sessions') <= Len(b) + 1
      ]_vars

\* stop_session has just ended the session of task 1 that start_session opened
\* at the same instant, beside a session of task 2 that is still open.
C34_Witness ==
    /\ call.task_id = 1
    /\ call.op = "stop_session"
    /\ \E i \in OpenRows(call.before.sessions, 1) :
          /\ call.before.sessions[i].start_utc = clock
          /\ sessions[i].end_utc = clock
    /\ OpenRows(sessions, 2) # {}
    /\ ~is_session_running(1)

\* The row of task u is in table a what it is in table b, or in neither.
SameRow(a, b, u) ==
    /\ u \in DOMAIN a <=> u \in DOMAIN b
    /\ u \in DOMAIN a => a[u] = b[u]

\* C35: set_snoozed_until_utc stores the snooze instant given and leaves the
\* task's skip date as it was, set_skipped_today_local stores the date given
\* and leaves the snooze instant as it was, clear_snooze_and_skip empties both,
\* and none of the three changes what is stored for another task.
C35_SnoozeAndSkipIndependent ==
    (call.task_id # NULL) =>
        LET t == call.task_id
            b == call.before.snoozes
        IN  /\ \A u \in DOMAIN tasks \ {t} : SameRow(snoozes, b, u)
            /\ DOMAIN snoozes \subseteq DOMAIN b \cup {t}
            /\ call.op = "set_snoozed_until_utc" =>
                  /\ StoredUntil(snoozes, t) = call.arg
                  /\ StoredSkip(snoozes, t) = StoredSkip(b, t)
            /\ call.op = "set_skipped_today_local" =>
                  /\ StoredSkip(snoozes, t) = call.arg
                  /\ StoredUntil(snoozes, t) = StoredUntil(b, t)
            /\ call.op = "clear_snooze_and_skip" =>
                  /\ StoredUntil(snoozes, t) = NULL
                  /\ StoredSkip(snoozes, t) = NULL

\* set_snoozed_until_utc has stored an instant for task 1, whose skip date of
\* today is still there, beside a snooze and a skip date of task 2.
C35_Witness ==
    /\ call.task_id = 1
    /\ call.op = "set_snoozed_until_utc"
    /\ call.arg # NULL
    /\ StoredUntil(snoozes, 1) = call.arg
    /\ StoredSkip(call.before.snoozes, 1) = (clock + utcoffset) \div 86400
    /\ StoredUntil(snoozes, 2) # NULL
    /\ StoredSkip(snoozes, 2) # NULL

\* Task t is eligible at the instant of the clock: compute_task_state, called
\* for it now, returns can_remind_now = true.
Eligible(t) ==
    /\ ~compute_raises(snoozes, t)
    /\ compute_task_state(snoozes, t, clock, to_local(clock), get_settings,
                          [completed |-> clock, period |-> clock, end |-> clock])
          .can_remind_now

\* C36: a task that is eligible is reminded by the ticks: the first tick at
\* which it is eligible and has no last-fired entry emits its reminder, with
\* no throttle delay, so that right after a tick every task eligible at the
\* tick's instant has been reminded in this run; and the tick at or after the
\* repeat interval reminds it again.
C36_EligibleIsReminded ==
    (evaluated.nowu # NULL /\ clock = evaluated.nowu) =>
        \A t \in DOMAIN tasks :
            Eligible(t) =>
                /\ t \in DOMAIN last_fired_utc
                /\ last_event[t] # NULL
                /\ evaluated.nowu - last_event[t] >= Max(1, settings.repeat_interval_minutes) * 60
                      => Fired(t)

\* C37: delete_sessions_for_current_workweek(t) removes exactly the session
\* rows of t whose start is in the current period, manual entries and timed
\* sessions, open or closed, and leaves every other row where it was; right
\* after it the done_minutes of t for the current period is 0.
C37_ResetDeletesThisPeriodOnly ==
    (call.task_id # NULL /\ call.op = "delete_sessions_for_current_workweek") =>
        LET t == call.task_id
            b == call.before.sessions
            stays(r) == r.task_id # t \/ WeekKey(r.start_utc) # WeekKey(clock)
            c == [task_id |-> t, rd |-> [end |-> clock, period |-> clock]]
        IN  /\ sessions = SelectSeq(b, stays)
            /\ weekly_minutes_for_current_workweek(t, clock, clock) = 0
            /\ ClaimedMinutes(sessions, c) = 0

\* The reset of task 1 has removed its manual entry of this week and left its
\* session of the week before.
C37_Witness ==
    /\ call.task_id = 1
    /\ call.op = "delete_sessions_for_current_workweek"
    /\ \E i \in DOMAIN call.before.sessions :
          /\ call.before.sessions[i].task_id = 1
          /\ call.before.sessions[i].manual_minutes > 0
          /\ WeekKey(call.before.sessions[i].start_utc) = WeekKey(clock)
    /\ Len(sessions) = Len(call.before.sessions) - 1
    /\ \E i \in DOMAIN sessions :
          /\ sessions[i].task_id = 1
          /\ WeekKey(sessions[i].start_utc) # WeekKey(clock)

\* The ids of the tasks the database was opened with.
FoundIds == {1, 2}

\* C38: after delete_task(id) list_tasks does not return the task and no row
\* of sessions, completions or snoozes has its id, while the tasks and rows of
\* every other id are what they were; and from then on no tick computes or
\* emits anything for an id that has no task.
C38_DeleteTaskCascades ==
    /\ (call.task_id # NULL /\ call.op = "delete_task") =>
          LET t == call.task_id
              b == call.before
              others(r) == r.task_id # t
          IN  /\ \A i \in DOMAIN list_tasks : list_tasks[i] # t
              /\ DOMAIN tasks = DOMAIN b.tasks \ {t}
              /\ \A u \in DOMAIN tasks : tasks[u] = b.tasks[u]
              /\ sessions = SelectSeq(b.sessions, others)
              /\ completions = SelectSeq(b.completions, others)
              /\ t \notin DOMAIN snoozes
              /\ \A u \in FoundIds \ {t} : SameRow(snoozes, b.snoozes, u)
    /\ \A t \in FoundIds \ DOMAIN tasks :
          /\ \A i \in DOMAIN sessions : sessions[i].task_id # t
          /\ \A i \in DOMAIN completions : completions[i].task_id # t
          /\ t \notin DOMAIN snoozes
          /\ ~Fired(t)
          /\ t \notin DOMAIN evaluated.by_task

\* A tick after task 1 was deleted, which an earlier tick had reminded: it
\* computes task 2 alone, whose rows are still there.
C38_Witness ==
    /\ 1 \notin DOMAIN tasks
    /\ 1 \in DOMAIN last_fired_utc
    /\ evaluated.nowu # NULL
    /\ DOMAIN evaluated.by_task = {2}
    /\ ~Fired(1)
    /\ \E i \in DOMAIN sessions : sessions[i].task_id = 2
    /\ 2 \in DOMAIN snoozes

\* C39: the menu entry "Until tomorrow at 09:00" completes without error and
\* stores for the task the instant of tomorrow's local date at the configured
\* reminder start time, as UTC; the task is then snoozed at every instant
\* before it.
C39_SnoozeUntilTomorrowStart ==
    (call.task_id # NULL /\ call.op = "_snooze_tomorrow_start") =>
        LET t == call.task_id
            tomorrow == ((call.nowu + utcoffset) \div 86400) + 1
            until == tomorrow * 86400 + StoredStart(settings) - utcoffset
        IN  /\ ~call.raised
            /\ StoredUntil(snoozes, t) = until
            /\ \A now \in {call.nowu, until - 1} :
                  compute_task_state(snoozes, t, now, to_local(now), get_settings,
                                     [completed |-> now, period |-> now, end |-> now])
                     .snoozed

====
